---------------------------- MODULE Spec2Model ----------------------------
(***************************************************************************)
(* Revision-history sync engine of the Airtable integration backend.       *)
(*                                                                         *)
(* The model follows src/src/services/scraping.service.ts (ScrapingService)*)
(* and src/src/routes/scraping.routes.ts (the HTTP routes that drive it).  *)
(* Every await of the TypeScript code that waits for the network or for the*)
(* browser is a step boundary; a database call and the synchronous code    *)
(* around it form one step.  The MongoDB collections are reliable, except  *)
(* for RevisionHistory.bulkWrite, whose failure the code handles itself.   *)
(***************************************************************************)
EXTENDS Naturals, Integers, Sequences, FiniteSets, TLC

(***************************************************************************)
(* Bounds of the model.                                                    *)
(***************************************************************************)
MaxJobs  == 2      \* /fetch-all-revisions requests in the single-flight runs
MaxAuths == 2      \* /authenticate requests in the acquisition runs
MaxTime  == 5      \* last value of the clock, in minutes

(***************************************************************************)
(* Program constants.                                                      *)
(***************************************************************************)
FreshWindow == 5   \* getOrExtractCookies: 5 * 60 * 1000 ms, in minutes
maxRetries  == 3   \* ScrapingService.maxRetries
NumProbes   == 3   \* validateCookies: the three probe endpoints

VARIABLES
  now,          \* wall clock (Date.now()), in minutes
  cookieStore,  \* the CookieStore collection: NoDoc or its single document
  revStore,     \* the RevisionHistory collection: pageId -> NoDoc or revisions
  pages,        \* the Page collection: sequence of target records
  jobs,         \* fetchAllRevisionHistory invocations (sync jobs)
  auths,        \* authenticateAndGetCookies invocations (acquisitions)
  one,          \* POST /revision-history/:baseId/:tableId/:recordId invocation
  val,          \* GET /validate-cookies invocation
  minted,       \* number of credential blobs minted so far
  disp,         \* an AirtableService instance: its rateLimitedRequest queue
  lim,          \* a job scheduled on the Bottleneck limiter of AirtableService
  rh,           \* RevisionHistoryService.batchFetchRevisionHistory invocation
  parser,       \* a call of ScrapingService.parseRevisionHistory
  oauth         \* the OAuth routes: codeVerifierStore and the /callback requests

vars == <<now, cookieStore, revStore, pages, jobs, auths, one, val, minted,
          disp, lim, rh, parser, oauth>>

NoDoc  == [none |-> TRUE]
RevDoc(revisions) == [revisions |-> revisions]

(***************************************************************************)
(* Session Store (CookieStore model and ScrapingService.storeCookies).     *)
(***************************************************************************)
CookieDoc(c, v, t, m) ==
  [cookies |-> c, isValid |-> v, lastValidated |-> t, mfaRequired |-> m]

\* storeCookies: findOneAndUpdate({}, {...}, {upsert: true})
storeCookies(cookieString, mfaRequired, t) ==
  CookieDoc(cookieString, TRUE, t, mfaRequired)

\* CookieStore.findOneAndUpdate({}, {isValid: false}) -- no upsert
MarkInvalid(doc) ==
  IF doc = NoDoc THEN NoDoc ELSE [doc EXCEPT !.isValid = FALSE]

\* CookieStore.findOneAndUpdate({}, {isValid: true, lastValidated: new Date()})
MarkValidated(doc, t) ==
  IF doc = NoDoc THEN NoDoc
  ELSE [doc EXCEPT !.isValid = TRUE, !.lastValidated = t]

\* getStoredCookies: cookieStore?.cookies || null   (0 stands for null)
getStoredCookies(doc) ==
  IF doc = NoDoc THEN 0 ELSE doc.cookies


(***************************************************************************)
(* Session Validator (ScrapingService.validateCookies).                    *)
(* One probe response is handled per step.  axios resolves for a status in *)
(* 200..499 (validateStatus) and throws otherwise; the inner catch goes on *)
(* to the next endpoint.  After the last endpoint the code marks the blob  *)
(* valid "optimistically" and returns true.                                *)
(***************************************************************************)
ProbeStatuses == {200, 401, 403, 500}

validateStep(idx, status) ==
  IF status = 200
    THEN [done |-> TRUE, result |-> TRUE, mark |-> TRUE]
    ELSE IF idx + 1 < NumProbes
      THEN [done |-> FALSE, result |-> FALSE, mark |-> FALSE]
      ELSE [done |-> TRUE, result |-> TRUE, mark |-> TRUE]

\* accessorDecision without the isValid test (as getStoredCookies reads)
accessorDecision_IgnoreFlag(doc, t) ==
  IF doc # NoDoc
    THEN IF doc.lastValidated + FreshWindow > t THEN "return" ELSE "probe"
    ELSE "throw"

(***************************************************************************)
(* Session accessor (ScrapingService.getOrExtractCookies): the decision    *)
(* taken on the document read from the store.                              *)
(***************************************************************************)
accessorDecision(doc, t) ==
  IF doc # NoDoc /\ doc.isValid
    THEN IF doc.lastValidated + FreshWindow > t THEN "return" ELSE "probe"
    ELSE "throw"

(***************************************************************************)
(* Clock.                                                                  *)
(***************************************************************************)
\* Only the comparison against the freshness window reads the clock, so the
\* clock jumps: to the last instant inside the window or to a later one.
Tick(t) ==
  /\ t > now
  /\ t >= FreshWindow - 1
  /\ t <= MaxTime
  /\ now' = t
  /\ UNCHANGED <<cookieStore, revStore, pages, jobs, auths, one, val, minted,
               disp, lim, rh,
               parser, oauth>>

(***************************************************************************)
(* Session Acquirer (ScrapingService.authenticateAndGetCookies), driven by *)
(* POST /authenticate.  Each invocation builds its own ScrapingService, so *)
(* this.browser belongs to the invocation.                                 *)
(***************************************************************************)
IdleAuth ==
  [pc |-> "idle", mfaCode |-> FALSE, debugMode |-> FALSE, browser |-> FALSE,
   mfaIsRequired |-> FALSE, stored |-> FALSE, blob |-> 0, error |-> ""]

AuthSlots == 1..MaxAuths

\* the catch block: the browser is closed unless debugMode, then rethrow
AuthFail(a, msg) ==
  [auths EXCEPT ![a].pc = "done", ![a].error = msg,
                ![a].browser = IF auths[a].debugMode THEN auths[a].browser
                               ELSE FALSE]

\* the normal return: closeBrowser unless debugMode
AuthReturn(a, rec) ==
  [rec EXCEPT !.pc = "done",
              !.browser = IF rec.debugMode THEN rec.browser ELSE FALSE]

\* POST /authenticate; the route passes no debugMode (default false), the
\* service method accepts it
Authenticate(a, hasCredentials, mfaCode, debugMode) ==
  /\ auths[a].pc = "idle"
  /\ auths' = [auths EXCEPT ![a] =
        IF hasCredentials
          THEN [IdleAuth EXCEPT !.pc = "launch", !.mfaCode = mfaCode,
                                !.debugMode = debugMode]
          ELSE [IdleAuth EXCEPT !.pc = "done", !.error = "BAD_REQUEST"]]
  /\ UNCHANGED <<now, cookieStore, revStore, pages, jobs, one, val, minted,
               disp, lim, rh,
               parser, oauth>>

\* initBrowser and createStealthPage
AuthLaunch(a, outcome) ==
  /\ auths[a].pc = "launch"
  /\ auths' =
       CASE outcome = "ok" ->
              [auths EXCEPT ![a].pc = "login", ![a].browser = TRUE]
         [] outcome = "launchFailed" ->
              \* puppeteer.launch threw: no browser to close
              [auths EXCEPT ![a].pc = "done", ![a].error = "LAUNCH_FAILED"]
         [] OTHER ->
              \* newPage threw: the browser is open and the catch closes it
              [AuthFail(a, "PAGE_FAILED") EXCEPT ![a].browser =
                  auths[a].debugMode]
  /\ UNCHANGED <<now, cookieStore, revStore, pages, jobs, one, val, minted,
               disp, lim, rh,
               parser, oauth>>

\* navigation to /login, e-mail, password, submit
AuthLogin(a, ok) ==
  /\ auths[a].pc = "login"
  /\ auths' = IF ok THEN [auths EXCEPT ![a].pc = "mfa"]
              ELSE AuthFail(a, "LOGIN_STEP_FAILED")
  /\ UNCHANGED <<now, cookieStore, revStore, pages, jobs, one, val, minted,
               disp, lim, rh,
               parser, oauth>>

\* AuthMfa without the "MFA code required but not provided" throw
AuthMfa_NoCodeCheck(a, mfaInput, ok) ==
  /\ auths[a].pc = "mfa"
  /\ auths' =
       IF mfaInput
         THEN IF ok
                THEN [auths EXCEPT ![a].pc = "verify",
                                   ![a].mfaIsRequired = TRUE]
                ELSE [AuthFail(a, "MFA_ENTRY_FAILED") EXCEPT
                        ![a].mfaIsRequired = TRUE]
         ELSE [auths EXCEPT ![a].pc = "verify"]
  /\ UNCHANGED <<now, cookieStore, revStore, pages, jobs, one, val, minted,
               disp, lim, rh,
               parser, oauth>>

\* "Step 3: Checking for MFA requirement"
AuthMfa(a, mfaInput, ok) ==
  /\ auths[a].pc = "mfa"
  /\ auths' =
       IF mfaInput
         THEN IF ~auths[a].mfaCode
                THEN [AuthFail(a, "MFA_CODE_REQUIRED") EXCEPT
                        ![a].mfaIsRequired = TRUE]
                ELSE IF ok
                  THEN [auths EXCEPT ![a].pc = "verify",
                                     ![a].mfaIsRequired = TRUE]
                  ELSE [AuthFail(a, "MFA_ENTRY_FAILED") EXCEPT
                          ![a].mfaIsRequired = TRUE]
         ELSE [auths EXCEPT ![a].pc = "verify"]
  /\ UNCHANGED <<now, cookieStore, revStore, pages, jobs, one, val, minted,
               disp, lim, rh,
               parser, oauth>>

\* the post-login checks (still on the login page, foreign domain, no
\* cookies, session pending 2FA), then storeCookies
AuthVerify(a, ok) ==
  /\ auths[a].pc = "verify"
  /\ IF ok
       THEN /\ minted' = minted + 1
            /\ cookieStore' =
                 storeCookies(minted + 1, auths[a].mfaIsRequired, now)
            /\ auths' = [auths EXCEPT ![a] =
                 LET r == [auths[a] EXCEPT !.stored = TRUE,
                                           !.blob = minted + 1]
                 IN  IF r.mfaIsRequired THEN [r EXCEPT !.pc = "test"]
                     ELSE AuthReturn(a, r)]
       ELSE /\ auths' = AuthFail(a, "LOGIN_CHECK_FAILED")
            /\ UNCHANGED <<cookieStore, minted,
               parser, oauth>>
  /\ UNCHANGED <<now, revStore, pages, jobs, one, val,
               disp, lim, rh,
               parser, oauth>>

\* "Testing cookies immediately after MFA authentication": axios.get with
\* the default validateStatus; status 0 stands for no response at all
TestStatuses == {200, 401, 403, 0}

AuthTest(a, status) ==
  /\ auths[a].pc = "test"
  /\ auths' = IF status \in {401, 403}
                THEN AuthFail(a, "COOKIE_TEST_FAILED")
                ELSE [auths EXCEPT ![a] = AuthReturn(a, auths[a])]
  /\ UNCHANGED <<now, cookieStore, revStore, pages, jobs, one, val, minted,
               disp, lim, rh,
               parser, oauth>>

(***************************************************************************)
(* Diff Parser (ScrapingService.parseRevisionHistory).                     *)
(* Text that the code searches with String.includes is a sequence of       *)
(* characters; titles and names are opaque strings ("" is the empty one).  *)
(* A fragment is the sequence of its .historicalCellContainer elements;    *)
(* a container has its label text, its columntypeifunchanged attribute and *)
(* its .choiceToken elements.                                              *)
(***************************************************************************)
Null == "null"

UpperLetters ==
  <<"A","B","C","D","E","F","G","H","I","J","K","L","M",
    "N","O","P","Q","R","S","T","U","V","W","X","Y","Z">>

LowerLetters ==
  <<"a","b","c","d","e","f","g","h","i","j","k","l","m",
    "n","o","p","q","r","s","t","u","v","w","x","y","z">>

LowerChar(c) ==
  IF \E i \in 1..26 : UpperLetters[i] = c
    THEN LowerLetters[CHOOSE i \in 1..26 : UpperLetters[i] = c]
    ELSE c

toLowerCase(str) == [i \in 1..Len(str) |-> LowerChar(str[i])]

RECURSIVE trimStart(_)
trimStart(str) ==
  IF str # <<>> /\ Head(str) = " " THEN trimStart(Tail(str)) ELSE str

RECURSIVE trimEnd(_)
trimEnd(str) ==
  IF str # <<>> /\ str[Len(str)] = " "
    THEN trimEnd(SubSeq(str, 1, Len(str) - 1)) ELSE str

trim(str) == trimEnd(trimStart(str))

includes(str, sub) ==
  \E i \in 1..(Len(str) + 1) :
     /\ i + Len(sub) - 1 <= Len(str)
     /\ SubSeq(str, i, i + Len(sub) - 1) = sub

sAssigned  == <<"a","s","s","i","g","n","e","d">>
sAssignee  == <<"a","s","s","i","g","n","e","e">>
sDeveloper == <<"d","e","v","e","l","o","p","e","r">>
sStatus    == <<"s","t","a","t","u","s">>
sPlus      == <<"P","l","u","s">>
sMinus     == <<"M","i","n","u","s">>
sLineThrough == <<"l","i","n","e","-","t","h","r","o","u","g","h">>

sAssign == <<"a","s","s","i","g","n">>

classify_Assign(label, columnTypeAttr) ==
  LET fieldName  == toLowerCase(trim(label))
      isAssignee == \/ includes(fieldName, sAssign)
                    \/ includes(fieldName, sDeveloper)
      isStatus   == includes(fieldName, sStatus)
  IN  IF (isAssignee \/ isStatus) /\ columnTypeAttr = "select"
        THEN IF isAssignee THEN "assignee" ELSE "status"
        ELSE ""

\* lines 1044-1057: the column type of a container, "" when it is skipped
classify(label, columnTypeAttr) ==
  LET fieldName  == toLowerCase(trim(label))
      isAssignee == \/ includes(fieldName, sAssigned)
                    \/ includes(fieldName, sAssignee)
                    \/ includes(fieldName, sDeveloper)
      isStatus   == includes(fieldName, sStatus)
  IN  IF (isAssignee \/ isStatus) /\ columnTypeAttr = "select"
        THEN IF isAssignee THEN "assignee" ELSE "status"
        ELSE ""

\* lines 1067-1069: attr("title") || text().trim()
tokenTitle(tok) == IF tok.titleAttr # "" THEN tok.titleAttr ELSE tok.text

RECURSIVE bucketTokens_StyleFirst(_, _)
RECURSIVE bucketTokens(_, _)
bucketTokens_StyleFirst(tokens, acc) ==
  IF tokens = <<>> THEN acc
  ELSE LET tok   == Head(tokens)
           title == tokenTitle(tok)
           next  ==
             IF title = "" THEN acc
             ELSE IF includes(tok.style, sLineThrough)
               THEN [acc EXCEPT !.oldValue = title]
             ELSE IF includes(tok.href, sMinus)
               THEN [acc EXCEPT !.oldValue = title]
             ELSE [acc EXCEPT !.newValue = title]
       IN  bucketTokens_StyleFirst(Tail(tokens), next)

\* lines 1063-1103: the choiceTokens.each callback, folded over the tokens
bucketTokens(tokens, acc) ==
  IF tokens = <<>> THEN acc
  ELSE LET tok   == Head(tokens)
           title == tokenTitle(tok)
           next  ==
             IF title = "" THEN acc
             ELSE IF includes(tok.href, sPlus)
               THEN [acc EXCEPT !.newValue = title]
             ELSE IF includes(tok.href, sMinus)
               THEN [acc EXCEPT !.oldValue = title]
             ELSE IF includes(tok.style, sLineThrough)
               THEN [acc EXCEPT !.oldValue = title]
             ELSE [acc EXCEPT !.newValue = title]
       IN  bucketTokens(Tail(tokens), next)

parseContainer_EmitEmpty(activity, container, pageId) ==
  LET columnType == classify(container.label, container.columnTypeAttr)
      v == IF columnType # ""
             THEN bucketTokens(container.tokens,
                               [oldValue |-> "", newValue |-> ""])
             ELSE [oldValue |-> "", newValue |-> ""]
  IN  IF columnType \in {"assignee", "status"}
        THEN << [uuid       |-> activity.id,
                 issueId    |-> pageId,
                 columnType |-> columnType,
                 oldValue   |-> IF v.oldValue # "" THEN v.oldValue ELSE Null,
                 newValue   |-> IF v.newValue # "" THEN v.newValue ELSE Null,
                 authoredBy |-> IF activity.user # "" THEN activity.user
                                ELSE "Unknown"] >>
        ELSE <<>>

\* lines 1026-1139: one container; the sequence of revisions it pushes
parseContainer(activity, container, pageId) ==
  LET columnType == classify(container.label, container.columnTypeAttr)
      v == IF columnType # ""
             THEN bucketTokens(container.tokens,
                               [oldValue |-> "", newValue |-> ""])
             ELSE [oldValue |-> "", newValue |-> ""]
  IN  IF columnType \in {"assignee", "status"}
         /\ (v.oldValue # "" \/ v.newValue # "")
        THEN << [uuid       |-> activity.id,
                 issueId    |-> pageId,
                 columnType |-> columnType,
                 oldValue   |-> IF v.oldValue # "" THEN v.oldValue ELSE Null,
                 newValue   |-> IF v.newValue # "" THEN v.newValue ELSE Null,
                 authoredBy |-> IF activity.user # "" THEN activity.user
                                ELSE "Unknown"] >>
        ELSE <<>>

RECURSIVE parseContainers(_, _, _)
parseContainers(activity, containers, pageId) ==
  IF containers = <<>> THEN <<>>
  ELSE parseContainer(activity, Head(containers), pageId)
         \o parseContainers(activity, Tail(containers), pageId)

RECURSIVE parseRevisionHistory_AbortOnThrow(_, _)
RECURSIVE parseRevisionHistory(_, _)
parseRevisionHistory_AbortOnThrow(activities, pageId) ==
  IF activities = <<>> THEN <<>>
  ELSE LET activity == Head(activities)
       IN  IF activity.html = "malformed" THEN <<>>
           ELSE (IF activity.html = "fragment"
                   THEN parseContainers(activity, activity.containers, pageId)
                   ELSE <<>>)
                \o parseRevisionHistory_AbortOnThrow(Tail(activities), pageId)

\* lines 1015-1143: an activity without html ("") is skipped (1016-1019);
\* html that makes cheerio.load throw ("malformed") is caught for that
\* activity alone (1021, 1140-1142); a "fragment" is parsed
parseRevisionHistory(activities, pageId) ==
  IF activities = <<>> THEN <<>>
  ELSE LET activity == Head(activities)
           revs == IF activity.html = "fragment"
                     THEN parseContainers(activity, activity.containers,
                                          pageId)
                     ELSE <<>>
       IN  revs \o parseRevisionHistory(Tail(activities), pageId)

(***************************************************************************)
(* Responses of the internal endpoint readRowActivitiesAndComments.        *)
(***************************************************************************)
Token(titleAttr, text, href, style) ==
  [titleAttr |-> titleAttr, text |-> text, href |-> href, style |-> style]

Container(label, columnTypeAttr, tokens) ==
  [label |-> label, columnTypeAttr |-> columnTypeAttr, tokens |-> tokens]

Activity(id, user, html, containers) ==
  [id |-> id, user |-> user, html |-> html, containers |-> containers]

hrefPlus  == <<"#">> \o sPlus
hrefMinus == <<"#">> \o sMinus

\* an Assignee change from "Alice" to "Bob", marked by the icons
ActAliceBob ==
  Activity("act1", "Carol", "fragment",
    << Container(<<"A","s","s","i","g","n","e","e">>, "select",
         << Token("Alice", "Alice", hrefMinus, <<>>),
            Token("Bob", "Bob", hrefPlus, <<>>) >>) >>)

\* a Status change from "Todo" to "Done", marked by the style only
ActStatus ==
  Activity("act2", "", "fragment",
    << Container(<<" ","S","t","a","t","u","s"," ">>, "select",
         << Token("", "Todo", <<>>, sLineThrough),
            Token("", "Done", <<>>, <<>>) >>) >>)

\* a change of a field that is not tracked
ActPriority ==
  Activity("act3", "Carol", "fragment",
    << Container(<<"P","r","i","o","r","i","t","y">>, "select",
         << Token("High", "High", hrefPlus, <<>>) >>) >>)

Response(status, activities) == [status |-> status, activities |-> activities]

\* status 0 stands for a transport error (no error.response)
FetchResponses ==
  { Response(200, <<ActAliceBob>>), Response(200, <<ActPriority>>),
    Response(404, <<>>), Response(401, <<>>), Response(403, <<>>),
    Response(429, <<>>), Response(500, <<>>), Response(0, <<>>) }

(***************************************************************************)
(* A call of ScrapingService.parseRevisionHistory on the activities of one *)
(* response, and the activities it is given here: every label, column type *)
(* and token list below in one container, alone, beside an activity whose  *)
(* html cannot be loaded, beside one without html, and beside a second     *)
(* container of the same activity.                                         *)
(***************************************************************************)
LabelAssignee   == <<"A","s","s","i","g","n","e","e">>
LabelAssignedTo == <<"A","S","S","I","G","N","E","D"," ","T","O">>
LabelDeveloper  == <<" ","D","e","v","e","l","o","p","e","r"," ">>
LabelStatus     == <<" ","S","t","a","t","u","s"," ">>
LabelBoth       == <<"A","s","s","i","g","n","e","e"," ","S","t","a","t","u","s">>
LabelAssignment == <<"A","s","s","i","g","n","m","e","n","t">>
LabelPriority   == <<"P","r","i","o","r","i","t","y">>

ParserLabels ==
  {LabelAssignee, LabelAssignedTo, LabelDeveloper, LabelStatus, LabelBoth,
   LabelAssignment, LabelPriority}

\* values of the attribute columntypeifunchanged ("" when it is absent)
ParserColumnTypes == {"select", "foreignKey", ""}

styleStrike == <<"t","e","x","t","-","d","e","c","o","r","a","t","i","o","n",":"," ">> \o sLineThrough

ParserTokenLists ==
  { <<>>,
    << Token("Bob", "Bob", hrefPlus, <<>>) >>,
    << Token("Alice", "Alice", hrefMinus, <<>>),
       Token("Bob", "Bob", hrefPlus, <<>>) >>,
    << Token("", "Todo", <<>>, styleStrike), Token("", "Done", <<>>, <<>>) >>,
    << Token("Bob", "Bob", hrefPlus, <<>>),
       Token("Carl", "Carl", hrefPlus, <<>>) >>,
    << Token("", "", hrefPlus, <<>>) >>,
    << Token("Eve", "Eve", hrefPlus, styleStrike) >>,
    << Token("Eve", "Eve", hrefMinus, <<>>),
       Token("Dan", "Dan", <<>>, styleStrike) >> }

ParserContainers ==
  { Container(l, t, toks) :
      l \in ParserLabels, t \in ParserColumnTypes, toks \in ParserTokenLists }

ActOf(c) == Activity("act1", "Carol", "fragment", <<c>>)

ActMalformed == Activity("act0", "Carol", "malformed", <<>>)

ActNoHtml == Activity("act9", "Carol", "", <<>>)

ContainerTodoDone ==
  Container(LabelStatus, "select",
    << Token("", "Todo", <<>>, styleStrike), Token("", "Done", <<>>, <<>>) >>)

ParserInputs ==
  UNION { { <<ActOf(c)>>,
            <<ActMalformed, ActOf(c)>>,
            <<ActOf(c), ActMalformed>>,
            <<ActNoHtml, ActOf(c)>>,
            <<Activity("act1", "", "fragment", <<c, ContainerTodoDone>>)>> } :
          c \in ParserContainers }

IdleParser ==
  [pc |-> "idle", activities |-> <<>>, pageId |-> "", revisions |-> <<>>]

\* parseRevisionHistory(activities, pageId) returns its revisions
Parse ==
  /\ parser.pc = "called"
  /\ parser' = [parser EXCEPT
                  !.pc = "done",
                  !.revisions = parseRevisionHistory(parser.activities,
                                                     parser.pageId)]
  /\ UNCHANGED <<now, cookieStore, revStore, pages, jobs, auths, one, val,
                 minted, disp, lim, rh, oauth>>

(***************************************************************************)
(* Revision Fetcher (ScrapingService.fetchRevisionHistory): what one       *)
(* response makes of a request that has been retried retryCount times.     *)
(***************************************************************************)
\* line 971: Math.pow(2, retryCount) * 1000
waitTime(retryCount) == (2 ^ retryCount) * 1000

fetchRevisionHistory_404Throws(resp, pageId, retryCount) ==
  CASE resp.status = 200 ->
         [kind |-> "return",
          revisions |-> parseRevisionHistory(resp.activities, pageId)]
    [] resp.status \in {401, 403} ->
         [kind |-> "COOKIES_EXPIRED", revisions |-> <<>>]
    [] resp.status = 429 /\ retryCount < maxRetries ->
         [kind |-> "retry", revisions |-> <<>>]
    [] OTHER ->
         [kind |-> "throw", revisions |-> <<>>]

fetchRevisionHistory(resp, pageId, retryCount) ==
  CASE resp.status = 200 ->
         [kind |-> "return",
          revisions |-> parseRevisionHistory(resp.activities, pageId)]
    [] resp.status = 404 ->
         [kind |-> "return", revisions |-> <<>>]
    [] resp.status \in {401, 403} ->
         [kind |-> "COOKIES_EXPIRED", revisions |-> <<>>]
    [] resp.status = 429 /\ retryCount < maxRetries ->
         [kind |-> "retry", revisions |-> <<>>]
    [] OTHER ->
         [kind |-> "throw", revisions |-> <<>>]

(***************************************************************************)
(* Sync Orchestrator (ScrapingService.fetchAllRevisionHistory), started by *)
(* POST /fetch-all-revisions.  The route starts the promise and answers at *)
(* once; nothing in the route or the service records the job, so a job is  *)
(* Running while its promise is pending, Completed when the promise        *)
(* resolves and Failed when it rejects.                                    *)
(***************************************************************************)
Page(pageId, baseId, tableId) ==
  [pageId |-> pageId, baseId |-> baseId, tableId |-> tableId]

PageIds == {"A", "B", "C"}

pagesToProcess_SkipStored(allPages) ==
  SelectSeq(allPages,
            LAMBDA p : /\ p.baseId # "" /\ p.tableId # "" /\ p.pageId # ""
                       /\ revStore[p.pageId] = NoDoc)

\* line 1190: pages with a baseId, a tableId and a pageId
pagesToProcess(allPages) ==
  SelectSeq(allPages,
            LAMBDA p : p.baseId # "" /\ p.tableId # "" /\ p.pageId # "")

NoValue ==
  [success |-> FALSE, hasHistory |-> FALSE, revisions |-> <<>>,
   isUpdate |-> FALSE, isNew |-> FALSE]

NoResult ==
  [st |-> "none", retryCount |-> 0, status |-> 0, value |-> NoValue]

ZeroCounters ==
  [processed |-> 0, withHistory |-> 0, withoutHistory |-> 0, updated |-> 0,
   newPages |-> 0, errors |-> 0]

\* stalled: more than StallWindow minutes have passed since the job started
\* or logged its last progress object (the code keeps no such time)
IdleJob ==
  [pc |-> "idle", result |-> "", error |-> "", batchSize |-> 0,
   cookies |-> 0, probes |-> 0, probeStatus |-> 0,
   targets |-> <<>>, existing |-> {}, i |-> 0, results |-> <<>>,
   count |-> ZeroCounters, bulkOps |-> <<>>, progress |-> <<>>,
   stalled |-> FALSE]

JobSlots == 1..MaxJobs

StallWindow == 30   \* minutes without progress after which a job is stalled
MaxStalls   == 1    \* periods of StallWindow minutes without any progress

JobState(job) ==
  IF job.pc = "idle" THEN "Idle"
  ELSE IF job.pc = "done" THEN job.result
  ELSE "Running"

Min(a, b) == IF a < b THEN a ELSE b

\* the indices (1-based) of pagesToProcess.slice(i, i + batchSize)
BatchOf(job) == (job.i + 1)..Min(job.i + job.batchSize, Len(job.targets))

\* the promise of fetchAllRevisionHistory rejects
JobThrow(job, msg) ==
  [job EXCEPT !.pc = "done", !.result = "Failed", !.error = msg]

\* the promise of fetchAllRevisionHistory resolves
JobResolve(job) ==
  [job EXCEPT !.pc = "done", !.result = "Completed"]

\* Promise.allSettled(batch.map(...)): every fetch of the batch is issued
IssueBatch(job) ==
  [job EXCEPT !.pc = "fetch",
              !.results = [k \in 1..Len(job.targets) |->
                  IF k \in BatchOf(job)
                    THEN [NoResult EXCEPT !.st = "inflight"]
                    ELSE job.results[k]]]

\* StartSync that a job in a terminal state blocks
StartSync_TerminalBlocks(j, batchSize) ==
  /\ jobs[j].pc = "idle"
  /\ \A k \in JobSlots : jobs[k].pc # "done"
  /\ jobs' = [jobs EXCEPT ![j] =
        [IdleJob EXCEPT !.pc = "cookies", !.batchSize = batchSize]]
  /\ UNCHANGED <<now, cookieStore, revStore, pages, auths, one, val, minted,
                 disp, lim, rh,
                 parser, oauth>>

\* POST /fetch-all-revisions
StartSync(j, batchSize) ==
  /\ jobs[j].pc = "idle"
  /\ jobs' = [jobs EXCEPT ![j] =
        [IdleJob EXCEPT !.pc = "cookies", !.batchSize = batchSize]]
  /\ UNCHANGED <<now, cookieStore, revStore, pages, auths, one, val, minted,
               disp, lim, rh,
               parser, oauth>>

\* JobGetCookies that, as its name suggests, extracts fresh cookies (starts
\* an acquisition) instead of throwing
JobGetCookies_Extract(j) ==
  /\ jobs[j].pc = "cookies"
  /\ LET job == jobs[j]
         d   == accessorDecision(cookieStore, now)
     IN  /\ jobs' = [jobs EXCEPT ![j] =
              CASE d = "return" ->
                     [job EXCEPT !.pc = "load",
                                 !.cookies = cookieStore.cookies]
                [] d = "probe" ->
                     [job EXCEPT !.pc = "probe",
                                 !.cookies = cookieStore.cookies]
                [] OTHER -> JobThrow(job, "No valid cookies available")]
         /\ auths' = IF d = "throw" /\ auths[1].pc = "idle"
                       THEN [auths EXCEPT ![1] =
                               [IdleAuth EXCEPT !.pc = "launch"]]
                       ELSE auths
  /\ UNCHANGED <<now, cookieStore, revStore, pages, one, val, minted,
               disp, lim, rh,
               parser, oauth>>

\* getOrExtractCookies up to its first network call
JobGetCookies(j) ==
  /\ jobs[j].pc = "cookies"
  /\ LET job == jobs[j]
         d   == accessorDecision(cookieStore, now)
     IN  jobs' = [jobs EXCEPT ![j] =
           CASE d = "return" ->
                  [job EXCEPT !.pc = "load", !.cookies = cookieStore.cookies]
             [] d = "probe" ->
                  [job EXCEPT !.pc = "probe", !.cookies = cookieStore.cookies]
             [] OTHER -> JobThrow(job, "No valid cookies available")]
  /\ UNCHANGED <<now, cookieStore, revStore, pages, auths, one, val, minted,
               disp, lim, rh,
               parser, oauth>>

\* validateCookies called by getOrExtractCookies: one probe response
JobProbe(j, status) ==
  /\ jobs[j].pc = "probe"
  /\ LET job == jobs[j]
         r   == validateStep(job.probes, status)
     IN  /\ cookieStore' = IF r.mark THEN MarkValidated(cookieStore, now)
                           ELSE cookieStore
         /\ jobs' = [jobs EXCEPT ![j] =
              LET q == [job EXCEPT !.probes = job.probes + 1,
                                   !.probeStatus = status]
              IN  IF ~r.done THEN q
                  ELSE IF r.result THEN [q EXCEPT !.pc = "load"]
                  ELSE JobThrow(q, "No valid cookies available")]
  /\ UNCHANGED <<now, revStore, pages, auths, one, val, minted,
               disp, lim, rh,
               parser, oauth>>

\* lines 1162-1230: the isValid re-check, the target set, the map of the
\* stored collections, and the first batch
JobLoad(j) ==
  /\ jobs[j].pc = "load"
  /\ LET job == jobs[j]
         ts  == pagesToProcess(pages)
         q   == [job EXCEPT !.targets = ts,
                            !.existing = {p \in PageIds : revStore[p] # NoDoc},
                            !.i = 0,
                            !.results = [k \in 1..Len(ts) |-> NoResult]]
     IN  jobs' = [jobs EXCEPT ![j] =
           IF cookieStore # NoDoc /\ ~cookieStore.isValid
             THEN JobThrow(job,
                    "Cookies are marked invalid. Please re-authenticate")
           ELSE IF Len(ts) = 0 THEN JobResolve(q)
           ELSE IssueBatch(q)]
  /\ UNCHANGED <<now, cookieStore, revStore, pages, auths, one, val, minted,
               disp, lim, rh,
               parser, oauth>>

\* recordResult whose catch swallows COOKIES_EXPIRED like any other error
recordResult_Swallow(job, k, f, status) ==
  LET wasProcessedBefore == job.targets[k].pageId \in job.existing
      has == Len(f.revisions) > 0
      r   == [job.results[k] EXCEPT !.status = status]
  IN  CASE f.kind = "return" ->
             [r EXCEPT !.st = "fulfilled",
                       !.value = [success    |-> TRUE,
                                  hasHistory |-> has,
                                  revisions  |-> f.revisions,
                                  isUpdate   |-> wasProcessedBefore /\ has,
                                  isNew      |-> ~wasProcessedBefore /\ has]]
        [] f.kind = "retry" ->
             [r EXCEPT !.retryCount = r.retryCount + 1]
        [] OTHER ->
             [r EXCEPT !.st = "fulfilled"]

\* lines 1232-1317: the value or the rejection of one record of the batch
recordResult(job, k, f, status) ==
  LET wasProcessedBefore == job.targets[k].pageId \in job.existing
      has == Len(f.revisions) > 0
      r   == [job.results[k] EXCEPT !.status = status]
  IN  CASE f.kind = "return" ->
             [r EXCEPT !.st = "fulfilled",
                       !.value = [success    |-> TRUE,
                                  hasHistory |-> has,
                                  revisions  |-> f.revisions,
                                  isUpdate   |-> wasProcessedBefore /\ has,
                                  isNew      |-> ~wasProcessedBefore /\ has]]
        [] f.kind = "COOKIES_EXPIRED" ->
             [r EXCEPT !.st = "rejected"]
        [] f.kind = "retry" ->
             [r EXCEPT !.retryCount = r.retryCount + 1]
        [] f.kind = "throw" /\ status = 404 ->   \* lines 1297-1309
             [r EXCEPT !.st = "fulfilled",
                       !.value = [NoValue EXCEPT !.success = TRUE]]
        [] OTHER ->
             [r EXCEPT !.st = "fulfilled"]

\* the internal endpoint answers the fetch of record k of the running batch
JobFetchRespond(j, k, resp) ==
  /\ jobs[j].pc = "fetch"
  /\ k \in BatchOf(jobs[j])
  /\ jobs[j].results[k].st = "inflight"
  /\ LET job == jobs[j]
         f   == fetchRevisionHistory(resp, job.targets[k].pageId,
                                     job.results[k].retryCount)
     IN  /\ jobs' = [jobs EXCEPT ![j].results[k] =
                        recordResult(job, k, f, resp.status)]
         /\ cookieStore' = IF f.kind = "COOKIES_EXPIRED"
                             THEN MarkInvalid(cookieStore) ELSE cookieStore
  /\ UNCHANGED <<now, revStore, pages, auths, one, val, minted,
               disp, lim, rh,
               parser, oauth>>

\* tallyRecord that does not count a failed record
tallyRecord_NoErrorTally(acc, r, page) ==
  LET c == acc.count
  IN  IF r.st = "fulfilled"
        THEN IF r.value.success
          THEN IF r.value.hasHistory
            THEN [acc EXCEPT
                   !.count = [c EXCEPT
                      !.processed = c.processed + 1,
                      !.withHistory = c.withHistory + 1,
                      !.updated = IF r.value.isUpdate THEN c.updated + 1
                                  ELSE c.updated,
                      !.newPages = IF ~r.value.isUpdate /\ r.value.isNew
                                     THEN c.newPages + 1 ELSE c.newPages],
                   !.bulkOps = Append(acc.bulkOps,
                      [pageId |-> page.pageId,
                       revisions |-> r.value.revisions])]
            ELSE [acc EXCEPT
                   !.count = [c EXCEPT
                      !.processed = c.processed + 1,
                      !.withoutHistory = c.withoutHistory + 1]]
          ELSE acc
        ELSE [acc EXCEPT
                !.count = [c EXCEPT !.errors = c.errors + 1,
                                    !.processed = c.processed + 1],
                !.thrown = TRUE]

\* lines 1329-1404: one iteration of the loop over the settled results
tallyRecord(acc, r, page) ==
  LET c == acc.count
  IN  IF r.st = "fulfilled"
        THEN IF r.value.success
          THEN IF r.value.hasHistory
            THEN [acc EXCEPT
                   !.count = [c EXCEPT
                      !.processed = c.processed + 1,
                      !.withHistory = c.withHistory + 1,
                      !.updated = IF r.value.isUpdate THEN c.updated + 1
                                  ELSE c.updated,
                      !.newPages = IF ~r.value.isUpdate /\ r.value.isNew
                                     THEN c.newPages + 1 ELSE c.newPages],
                   !.bulkOps = Append(acc.bulkOps,
                      [pageId |-> page.pageId,
                       revisions |-> r.value.revisions])]
            ELSE [acc EXCEPT
                   !.count = [c EXCEPT
                      !.processed = c.processed + 1,
                      !.withoutHistory = c.withoutHistory + 1]]
          ELSE [acc EXCEPT !.count = [c EXCEPT !.errors = c.errors + 1]]
        ELSE \* rejected: the reason is COOKIES_EXPIRED, the loop throws
             [acc EXCEPT
                !.count = [c EXCEPT !.errors = c.errors + 1,
                                    !.processed = c.processed + 1],
                !.thrown = TRUE]

RECURSIVE tally(_, _, _, _)
tally(job, k, last, acc) ==
  IF k > last \/ acc.thrown THEN acc
  ELSE tally(job, k + 1, last,
             tallyRecord(acc, job.results[k], job.targets[k]))

\* AfterBatch that reports the progress only when the job ends
AfterBatch_ReportAtEnd(job) ==
  LET c == job.count
      q == [job EXCEPT !.bulkOps = <<>>, !.stalled = FALSE]
  IN  IF job.i + job.batchSize < Len(job.targets)
        THEN [q EXCEPT !.pc = "delay"]
        ELSE JobResolve([q EXCEPT
               !.progress = Append(job.progress,
                 [processed |-> c.processed, total |-> Len(job.targets),
                  withHistory |-> c.withHistory,
                  withoutHistory |-> c.withoutHistory,
                  updated |-> c.updated, newPages |-> c.newPages,
                  errors |-> c.errors])])

\* lines 1425-1455 and 1457-1513: the progress object, then either the
\* pacing delay before the next batch or the end of the job
AfterBatch(job) ==
  LET c == job.count
      q == [job EXCEPT
              !.bulkOps = <<>>,
              !.stalled = FALSE,
              !.progress = Append(job.progress,
                 [processed |-> c.processed, total |-> Len(job.targets),
                  withHistory |-> c.withHistory,
                  withoutHistory |-> c.withoutHistory,
                  updated |-> c.updated, newPages |-> c.newPages,
                  errors |-> c.errors])]
  IN  IF job.i + job.batchSize < Len(job.targets)
        THEN [q EXCEPT !.pc = "delay"]
        ELSE JobResolve(q)

\* JobTally on Promise.all: the loop starts at the first rejection
JobTally_FailFast(j) ==
  /\ jobs[j].pc = "fetch"
  /\ \/ \A k \in BatchOf(jobs[j]) :
           jobs[j].results[k].st \in {"fulfilled", "rejected"}
     \/ \E k \in BatchOf(jobs[j]) : jobs[j].results[k].st = "rejected"
  /\ LET job == jobs[j]
         acc == tally(job, job.i + 1,
                      Min(job.i + job.batchSize, Len(job.targets)),
                      [count |-> job.count, bulkOps |-> <<>>,
                       thrown |-> FALSE])
         q   == [job EXCEPT !.count = acc.count]
     IN  jobs' = [jobs EXCEPT ![j] =
           IF acc.thrown
             THEN JobThrow(q,
               "Cookies expired during processing. Please re-authenticate.")
           ELSE IF acc.bulkOps # <<>>
             THEN [q EXCEPT !.pc = "write", !.bulkOps = acc.bulkOps]
           ELSE AfterBatch(q)]
  /\ UNCHANGED <<now, cookieStore, revStore, pages, auths, one, val, minted,
                 disp, lim, rh,
                 parser, oauth>>

\* Promise.allSettled has resolved: the loop over the results
JobTally(j) ==
  /\ jobs[j].pc = "fetch"
  /\ \A k \in BatchOf(jobs[j]) :
        jobs[j].results[k].st \in {"fulfilled", "rejected"}
  /\ LET job == jobs[j]
         acc == tally(job, job.i + 1,
                      Min(job.i + job.batchSize, Len(job.targets)),
                      [count |-> job.count, bulkOps |-> <<>>,
                       thrown |-> FALSE])
         q   == [job EXCEPT !.count = acc.count]
     IN  jobs' = [jobs EXCEPT ![j] =
           IF acc.thrown
             THEN JobThrow(q,
               "Cookies expired during processing. Please re-authenticate.")
           ELSE IF acc.bulkOps # <<>>
             THEN [q EXCEPT !.pc = "write", !.bulkOps = acc.bulkOps]
           ELSE AfterBatch(q)]
  /\ UNCHANGED <<now, cookieStore, revStore, pages, auths, one, val, minted,
               disp, lim, rh,
               parser, oauth>>

bulkWrite_Append(store, ops, applied) ==
  [p \in PageIds |->
     IF \E n \in applied : ops[n].pageId = p
       THEN LET revs == ops[CHOOSE n \in applied : ops[n].pageId = p].revisions
            IN  IF store[p] = NoDoc THEN RevDoc(revs)
                ELSE RevDoc(store[p].revisions \o revs)
       ELSE store[p]]

\* RevisionHistory.bulkWrite(bulkOps, {ordered: false}): the operations of
\* applied are written; a bulk error (applied is not all of them) is caught
bulkWrite(store, ops, applied) ==
  [p \in PageIds |->
     IF \E n \in applied : ops[n].pageId = p
       THEN RevDoc(ops[CHOOSE n \in applied : ops[n].pageId = p].revisions)
       ELSE store[p]]

JobBulkWrite(j, applied) ==
  /\ jobs[j].pc = "write"
  /\ applied \subseteq 1..Len(jobs[j].bulkOps)
  /\ revStore' = bulkWrite(revStore, jobs[j].bulkOps, applied)
  /\ jobs' = [jobs EXCEPT ![j] = AfterBatch(jobs[j])]
  /\ UNCHANGED <<now, cookieStore, pages, auths, one, val, minted,
               disp, lim, rh,
               parser, oauth>>

MaxReports == 4   \* progress reports of one job

\* the pacing delay is over: i += batchSize and the next Promise.allSettled
JobNextBatch(j) ==
  /\ jobs[j].pc = "delay"
  /\ Len(jobs[j].progress) < MaxReports
  /\ jobs' = [jobs EXCEPT ![j] =
        IssueBatch([jobs[j] EXCEPT !.i = jobs[j].i + jobs[j].batchSize])]
  /\ UNCHANGED <<now, cookieStore, revStore, pages, auths, one, val, minted,
               disp, lim, rh,
               parser, oauth>>

\* more than StallWindow minutes pass in which no job takes a step
Stall ==
  /\ now < MaxStalls * (StallWindow + 1)
  /\ \E j \in JobSlots : JobState(jobs[j]) = "Running"
  /\ now' = now + StallWindow + 1
  /\ jobs' = [j \in JobSlots |->
                IF JobState(jobs[j]) = "Running"
                  THEN [jobs[j] EXCEPT !.stalled = TRUE] ELSE jobs[j]]
  /\ UNCHANGED <<cookieStore, revStore, pages, auths, one, val, minted,
                 disp, lim, rh,
                 parser, oauth>>

(***************************************************************************)
(* POST /revision-history/:baseId/:tableId/:recordId -- the single-record  *)
(* fetch (fetchOneRecordHistory).                                          *)
(***************************************************************************)
\* wait: the delay before the retry in progress; revisions: the revisions of
\* the response body
IdleOne ==
  [pc |-> "idle", pageId |-> "", cookies |-> 0, retryCount |-> 0,
   status |-> 0, error |-> "", wait |-> 0, revisions |-> <<>>]

\* the route up to axios.get: getStoredCookies, 401 when it returns null
OneStart(p) ==
  /\ one.pc \in {"idle", "done"}
  /\ LET cookies == getStoredCookies(cookieStore)
         o == [IdleOne EXCEPT !.pageId = p]
     IN  one' = IF cookies = 0
                  THEN [o EXCEPT !.pc = "done",
                                 !.error = "No valid cookies available"]
                  ELSE [o EXCEPT !.pc = "inflight", !.cookies = cookies]
  /\ UNCHANGED <<now, cookieStore, revStore, pages, jobs, auths, val, minted,
               disp, lim, rh,
               parser, oauth>>

\* the endpoint answers; on success the route upserts the record's document
OneRespond(resp) ==
  /\ one.pc = "inflight"
  /\ LET f == fetchRevisionHistory(resp, one.pageId, one.retryCount)
         o == [one EXCEPT !.status = resp.status]
         end(msg) == [o EXCEPT !.pc = "done", !.error = msg,
                               !.cookies = 0, !.retryCount = 0, !.wait = 0]
     IN  /\ one' =
              CASE f.kind = "return" ->
                     [end("") EXCEPT !.revisions = f.revisions]
                [] f.kind = "retry" ->
                     [o EXCEPT !.retryCount = one.retryCount + 1,
                               !.wait = waitTime(one.retryCount)]
                [] f.kind = "COOKIES_EXPIRED" -> end("COOKIES_EXPIRED")
                [] OTHER -> end("REQUEST_FAILED")
         /\ cookieStore' = IF f.kind = "COOKIES_EXPIRED"
                             THEN MarkInvalid(cookieStore) ELSE cookieStore
         /\ revStore' = IF f.kind = "return"
                          THEN [revStore EXCEPT
                                  ![one.pageId] = RevDoc(f.revisions)]
                          ELSE revStore
  /\ UNCHANGED <<now, pages, jobs, auths, val, minted,
               disp, lim, rh,
               parser, oauth>>

(***************************************************************************)
(* GET /validate-cookies.                                                  *)
(***************************************************************************)
IdleVal ==
  [pc |-> "idle", cookies |-> 0, probes |-> 0, probeStatus |-> 0,
   valid |-> FALSE]

ValStart ==
  /\ val.pc \in {"idle", "done"}
  /\ LET cookies == getStoredCookies(cookieStore)
     IN  val' = IF cookies = 0
                  THEN [IdleVal EXCEPT !.pc = "done"]
                  ELSE [IdleVal EXCEPT !.pc = "probe", !.cookies = cookies]
  /\ UNCHANGED <<now, cookieStore, revStore, pages, jobs, auths, one, minted,
               disp, lim, rh,
               parser, oauth>>

ValProbe(status) ==
  /\ val.pc = "probe"
  /\ LET r == validateStep(val.probes, status)
     IN  /\ cookieStore' = IF r.mark THEN MarkValidated(cookieStore, now)
                           ELSE cookieStore
         /\ val' = LET v == [val EXCEPT !.probes = val.probes + 1,
                                         !.probeStatus = status]
                    IN  IF r.done
                          THEN [v EXCEPT !.pc = "done", !.valid = r.result,
                                         !.cookies = 0, !.probes = 0]
                          ELSE v
  /\ UNCHANGED <<now, revStore, pages, jobs, auths, one, minted,
               disp, lim, rh,
               parser, oauth>>

(***************************************************************************)
(* AirtableService.rateLimitedRequest: the queue that serializes and paces *)
(* the requests of one instance.  Times are Date.now() values in ms.  Each *)
(* call chains one callback on requestQueue; a callback runs when the one  *)
(* before it has settled (the chain ends in .catch, so a rejected request  *)
(* does not break it).                                                     *)
(***************************************************************************)
minRequestInterval == 250   \* AirtableService.minRequestInterval
maxConcurrent      == 2     \* AirtableService.maxConcurrent

MaxRequests == 3      \* calls of rateLimitedRequest on the instance
MaxClock    == 1600   \* last value of the instance's clock, in ms

\* the instance has just been built; a start time of -1 stands for no
\* request dispatched yet
IdleDisp ==
  [clock |-> 1000, lastRequestTime |-> 0, submitted |-> 0, queued |-> 0,
   pc |-> "idle", wakeAt |-> 0, prevStart |-> -1, lastStart |-> -1,
   delayed |-> FALSE, attempts |-> 0, answered |-> 0, result |-> 0,
   queue |-> <<>>, current |-> 0, startOrder |-> <<>>, outcomes |-> <<>>,
   chain |-> "fulfilled"]

\* the callback that runs last of those waiting on the chain
nextCallback_Last(queue) == Len(queue)

\* lines 221-222: requestQueue.then(...) runs the callbacks in the order in
\* which they were chained; the position in queue of the one to run next
nextCallback(queue) == 1

\* a chain that ends in .then(resolve) alone
queueAfter_NoCatch(status) == IF status = 200 THEN "fulfilled" ELSE "rejected"

\* lines 233-234: the state of requestQueue once .then(resolve).catch(reject)
\* has handled the outcome of requestFn (reject returns undefined)
queueAfter(status) == "fulfilled"

\* the callback dispatches at once
dispatchDelay_None(t, lastRequestTime) == 0

\* lines 222-228: how long the callback waits before it dispatches
dispatchDelay(t, lastRequestTime) ==
  LET timeSinceLastRequest == t - lastRequestTime
  IN  IF timeSinceLastRequest < minRequestInterval
        THEN minRequestInterval - timeSinceLastRequest
        ELSE 0

\* lines 230-231: this.lastRequestTime = Date.now(); return requestFn()
Dispatch(d) ==
  [d EXCEPT !.pc = "request", !.lastRequestTime = d.clock,
            !.prevStart = d.lastStart, !.lastStart = d.clock,
            !.attempts = d.attempts + 1,
            !.startOrder = Append(d.startOrder, d.current)]

\* time passes; setTimeout never fires early, it may fire late
DispTick(ms) ==
  /\ disp.clock + ms <= MaxClock
  /\ disp' = [disp EXCEPT !.clock = disp.clock + ms]
  /\ UNCHANGED <<now, cookieStore, revStore, pages, jobs, auths, one, val,
                 minted, lim, rh,
                 parser, oauth>>

\* a call of rateLimitedRequest: one more callback on the chain
DispSubmit ==
  /\ disp.submitted < MaxRequests
  /\ disp' = [disp EXCEPT !.submitted = disp.submitted + 1,
                          !.queued = disp.queued + 1,
                          !.queue = Append(disp.queue, disp.submitted + 1),
                          !.outcomes = Append(disp.outcomes, "pending")]
  /\ UNCHANGED <<now, cookieStore, revStore, pages, jobs, auths, one, val,
                 minted, lim, rh,
                 parser, oauth>>

\* the next callback of the chain runs up to its first await
DispRun ==
  /\ disp.pc = "idle"
  /\ disp.queued > 0
  /\ disp.chain = "fulfilled"
  /\ LET n    == nextCallback(disp.queue)
         d    == [disp EXCEPT
                    !.queued = disp.queued - 1,
                    !.current = disp.queue[n],
                    !.queue = SubSeq(disp.queue, 1, n - 1)
                              \o SubSeq(disp.queue, n + 1, Len(disp.queue))]
         wait == dispatchDelay(disp.clock, disp.lastRequestTime)
     IN  disp' = IF wait > 0
                   THEN [d EXCEPT !.pc = "delay",
                                  !.wakeAt = disp.clock + wait,
                                  !.delayed = TRUE]
                   ELSE Dispatch([d EXCEPT !.delayed = FALSE])
  /\ UNCHANGED <<now, cookieStore, revStore, pages, jobs, auths, one, val,
                 minted, lim, rh,
                 parser, oauth>>

\* the timer of this.delay fires
DispWake ==
  /\ disp.pc = "delay"
  /\ disp.clock >= disp.wakeAt
  /\ disp' = Dispatch(disp)
  /\ UNCHANGED <<now, cookieStore, revStore, pages, jobs, auths, one, val,
                 minted, lim, rh,
                 parser, oauth>>

\* lines 232-234: the promise of requestFn settles with the answer of the
\* request (answered) and .then(resolve).catch(reject) settles the caller's
\* promise with it (result)
DispSettle(status) ==
  /\ disp.pc = "request"
  /\ disp' = [disp EXCEPT
                 !.pc = "idle", !.answered = status, !.result = status,
                 !.outcomes[disp.current] =
                    IF status = 200 THEN "resolved" ELSE "rejected",
                 !.current = 0,
                 !.chain = queueAfter(status)]
  /\ UNCHANGED <<now, cookieStore, revStore, pages, jobs, auths, one, val,
                 minted, lim, rh,
                 parser, oauth>>

(***************************************************************************)
(* AirtableService.limiter (Bottleneck) and its "failed" handler: one job  *)
(* given to limiter.schedule.  A number returned by the handler makes      *)
(* Bottleneck run the job again after that many ms; the handler returns    *)
(* one for every 429.                                                      *)
(***************************************************************************)
MaxLimiterRetries == 5   \* 429 answers to the scheduled job

\* status: the last answer to the job's request; thrown: the status of the
\* error that limiter.schedule rejects with (0: none)
IdleLim ==
  [pc |-> "idle", retryCount |-> 0, wait |-> 0, error |-> "", status |-> 0,
   thrown |-> 0]

limiterFailed_AnyFailure(status, retryCount) ==
  LET retry == retryCount + 1
  IN  IF 2000 * retry < 8000 THEN 2000 * retry ELSE 8000

\* lines 32-39: the wait returned for a failure, 0 when the handler returns
\* nothing
limiterFailed(status, retryCount) ==
  IF status = 429
    THEN LET retry == retryCount + 1
         IN  IF 2000 * retry < 8000 THEN 2000 * retry ELSE 8000
    ELSE 0

LimSchedule ==
  /\ lim.pc = "idle"
  /\ lim' = [IdleLim EXCEPT !.pc = "running"]
  /\ UNCHANGED <<now, cookieStore, revStore, pages, jobs, auths, one, val,
                 minted, disp, rh,
                 parser, oauth>>

\* the request of the job is answered
LimRespond(status) ==
  /\ lim.pc = "running"
  /\ limiterFailed(status, lim.retryCount) > 0
       => lim.retryCount < MaxLimiterRetries
  /\ lim' = LET wait == limiterFailed(status, lim.retryCount)
                l    == [lim EXCEPT !.status = status]
            IN  IF status = 200 THEN [l EXCEPT !.pc = "done"]
                ELSE IF wait > 0
                  THEN [l EXCEPT !.retryCount = lim.retryCount + 1,
                                 !.wait = wait]
                ELSE [l EXCEPT !.pc = "done", !.error = "REQUEST_FAILED",
                               !.thrown = status]
  /\ UNCHANGED <<now, cookieStore, revStore, pages, jobs, auths, one, val,
                 minted, disp, rh,
                 parser, oauth>>

(***************************************************************************)
(* RevisionHistoryService.batchFetchRevisionHistory, the batch operation   *)
(* of POST /revision-history/fetch: the records are fetched one after the  *)
(* other with the cookies of the request.                                  *)
(***************************************************************************)
IdleRh ==
  [pc |-> "idle", recordIds |-> <<>>, i |-> 0, status |-> 0, fetched |-> 0,
   error |-> ""]

\* RevisionHistoryService.fetchRevisionHistory: what one response makes of
\* the request (lines 54-70)
rhFetch(status) ==
  IF status = 200 THEN "return"
  ELSE IF status = 401 THEN "COOKIES_EXPIRED"
  ELSE "throw"

RhStart ==
  /\ rh.pc = "idle"
  /\ rh' = [IdleRh EXCEPT !.pc = "inflight", !.recordIds = <<"A", "B">>]
  /\ UNCHANGED <<now, cookieStore, revStore, pages, jobs, auths, one, val,
                 minted, disp, lim,
                 parser, oauth>>

\* the endpoint answers the fetch of recordIds[i] (i counted from 0)
RhRespond(status) ==
  /\ rh.pc = "inflight"
  /\ LET f == rhFetch(status)
         r == [rh EXCEPT !.status = status]
         next(q) == IF q.i + 1 < Len(q.recordIds)
                      THEN [q EXCEPT !.i = q.i + 1]
                      ELSE [q EXCEPT !.i = q.i + 1, !.pc = "done"]
     IN  rh' = CASE f = "return" ->
                      next([r EXCEPT !.fetched = r.fetched + 1])
                 [] f = "COOKIES_EXPIRED" ->
                      [r EXCEPT !.pc = "done", !.error = "COOKIES_EXPIRED"]
                 [] OTHER -> next(r)
  /\ UNCHANGED <<now, cookieStore, revStore, pages, jobs, auths, one, val,
                 minted, disp, lim,
                 parser, oauth>>

\* revision-history.routes.ts 98-112, the save loop of the route: for every
\* activity without a stored match, RevisionHistory.create({...activity,
\* baseId, tableId}).  The activity has no pageId, which the schema of
\* revision-history.model.ts requires: create rejects with a ValidationError,
\* the route answers 500 and no document is written.
RhSave(hasActivities) ==
  /\ rh.pc = "done"
  /\ rh.error = ""
  /\ hasActivities => rh.fetched > 0
  /\ rh' = [rh EXCEPT !.pc = "saved",
                      !.error = IF hasActivities THEN "ValidationError"
                                ELSE ""]
  /\ UNCHANGED <<now, cookieStore, revStore, pages, jobs, auths, one, val,
                 minted, disp, lim, parser, oauth>>

(***************************************************************************)
(* The OAuth routes (airtable-auth.routes.ts).  A state value is 16 random *)
(* bytes: every /authorize issues a value not issued before, here the next *)
(* of 1, 2, ...  codeVerifierStore is the set of states that hold a        *)
(* verifier; the verifier stored for state s is named by s.  A callback's  *)
(* state parameter is 0 when the query has none.                           *)
(***************************************************************************)
MaxStates    == 2   \* /authorize requests
MaxCallbacks == 3   \* /callback requests

IdleOAuth == [issued |-> 0, codeVerifierStore |-> {}, callbacks |-> <<>>,
              token |-> 0]

\* GET /authorize: a fresh state, its verifier stored under it
Authorize ==
  /\ oauth.issued < MaxStates
  /\ oauth' = [oauth EXCEPT
                 !.issued = @ + 1,
                 !.codeVerifierStore = @ \cup {oauth.issued + 1}]
  /\ UNCHANGED <<now, cookieStore, revStore, pages, jobs, auths, one, val,
                 minted, disp, lim, rh, parser>>

\* the clean-up timer that /authorize set for state s fires
ExpireVerifier(s) ==
  /\ s \in oauth.codeVerifierStore
  /\ oauth' = [oauth EXCEPT !.codeVerifierStore = @ \ {s}]
  /\ UNCHANGED <<now, cookieStore, revStore, pages, jobs, auths, one, val,
                 minted, disp, lim, rh, parser>>

\* the checks of /callback before the exchange, in the code's order; "" when
\* all of them pass
callbackCheck(store, state, hasCode, hasError) ==
  IF hasError THEN "oauth_error"
  ELSE IF ~hasCode \/ state = 0 THEN "invalid_callback"
  ELSE IF state \notin store THEN "invalid_state"
  ELSE ""

\* a callback that leaves the verifier it used in the store
storeAfterTake_Keep(store, state) == store

\* "Clean up used verifier"
storeAfterTake(store, state) == store \ {state}

\* GET /callback up to its first await: the checks, and for a callback that
\* passes them the verifier taken and the token exchange sent
Callback(state, hasCode, hasError) ==
  /\ Len(oauth.callbacks) < MaxCallbacks
  /\ LET rejected == callbackCheck(oauth.codeVerifierStore, state, hasCode,
                                   hasError)
         cb == [state |-> state, code |-> hasCode, error |-> hasError,
                pc |-> IF rejected = "" THEN "token" ELSE "done",
                outcome |-> rejected,
                codeVerifier |-> IF rejected = "" THEN state ELSE 0]
     IN oauth' = [oauth EXCEPT
                    !.callbacks = Append(@, cb),
                    !.codeVerifierStore =
                       IF rejected = "" THEN storeAfterTake(@, state) ELSE @]
  /\ UNCHANGED <<now, cookieStore, revStore, pages, jobs, auths, one, val,
                 minted, disp, lim, rh, parser>>

TokenStatuses == {200, 400}

\* the token endpoint answers callback c
CbTokenRespond(c, status) ==
  /\ c \in 1..Len(oauth.callbacks)
  /\ oauth.callbacks[c].pc = "token"
  /\ oauth' = [oauth EXCEPT !.callbacks[c] =
        IF status = 200
        THEN [@ EXCEPT !.pc = "save"]
        ELSE [@ EXCEPT !.pc = "done", !.outcome = "token_exchange_failed"]]
  /\ UNCHANGED <<now, cookieStore, revStore, pages, jobs, auths, one, val,
                 minted, disp, lim, rh, parser>>

\* OAuthToken.findOneAndUpdate of callback c returns (ok) or throws
CbSave(c, ok) ==
  /\ c \in 1..Len(oauth.callbacks)
  /\ oauth.callbacks[c].pc = "save"
  /\ oauth' = [oauth EXCEPT
        !.token = IF ok THEN oauth.callbacks[c].state ELSE @,
        !.callbacks[c] =
           [@ EXCEPT !.pc = "done",
                     !.outcome = IF ok THEN "success"
                                 ELSE "token_exchange_failed"]]
  /\ UNCHANGED <<now, cookieStore, revStore, pages, jobs, auths, one, val,
                 minted, disp, lim, rh, parser>>

(***************************************************************************)
(* Specifications.                                                         *)
(***************************************************************************)
PageA == Page("A", "base", "tbl")
PageB == Page("B", "base", "tbl")
PageC == Page("C", "base", "tbl")

BatchSizes == 1..3

InitIdle ==
  /\ now = 0
  /\ revStore = [p \in PageIds |-> NoDoc]
  /\ jobs = [j \in JobSlots |-> IdleJob]
  /\ auths = [a \in AuthSlots |-> IdleAuth]
  /\ one = IdleOne
  /\ val = IdleVal
  /\ disp = IdleDisp
  /\ lim = IdleLim
  /\ rh = IdleRh
  /\ parser = IdleParser
  /\ oauth = IdleOAuth

\* Session lifecycle: a fresh deployment (no blob stored, no Page document
\* yet) with one sync request, one acquisition, the single-record route, the
\* validate route and the clock.
Init ==
  /\ InitIdle
  /\ cookieStore = NoDoc
  /\ minted = 0
  /\ pages = <<>>

Next ==
  \/ \E t \in 1..MaxTime : Tick(t)
  \/ \E c, m \in BOOLEAN : Authenticate(1, c, m, FALSE)
  \/ \E o \in {"ok", "launchFailed", "pageFailed"} : AuthLaunch(1, o)
  \/ \E ok \in BOOLEAN : AuthLogin(1, ok)
  \/ \E d, ok \in BOOLEAN : AuthMfa(1, d, ok)
  \/ \E ok \in BOOLEAN : AuthVerify(1, ok)
  \/ \E st \in TestStatuses : AuthTest(1, st)
  \/ StartSync(1, 1)
  \/ JobGetCookies(1)
  \/ \E st \in ProbeStatuses : JobProbe(1, st)
  \/ JobLoad(1)
  \/ OneStart("A")
  \/ \E r \in FetchResponses : OneRespond(r)
  \/ ValStart
  \/ \E st \in ProbeStatuses : ValProbe(st)

Spec == Init /\ [][Next]_vars

\* Acquisition: concurrent /authenticate requests on a fresh deployment.
NextAuth ==
  \E a \in AuthSlots :
    \/ \E c, m, dbg \in BOOLEAN : Authenticate(a, c, m, dbg)
    \/ \E o \in {"ok", "launchFailed", "pageFailed"} : AuthLaunch(a, o)
    \/ \E ok \in BOOLEAN : AuthLogin(a, ok)
    \/ \E d, ok \in BOOLEAN : AuthMfa(a, d, ok)
    \/ \E ok \in BOOLEAN : AuthVerify(a, ok)
    \/ \E st \in TestStatuses : AuthTest(a, st)

SpecAuth == Init /\ [][NextAuth]_vars

\* Sync jobs over a stored, recently validated blob.
InitValid ==
  /\ InitIdle
  /\ cookieStore = CookieDoc(1, TRUE, 0, FALSE)
  /\ minted = 1

JobStep(j) ==
  \/ JobGetCookies(j)
  \/ JobLoad(j)
  \/ \E k \in 1..3, r \in FetchResponses : JobFetchRespond(j, k, r)
  \/ JobTally(j)
  \/ \E w \in SUBSET (1..3) : JobBulkWrite(j, w)
  \/ JobNextBatch(j)

\* Single flight: concurrent /fetch-all-revisions requests, one target.
InitFlight ==
  /\ InitValid
  /\ pages = <<PageA>>

NextFlight ==
  \E j \in JobSlots :
    \/ StartSync(j, 1)
    \/ JobGetCookies(j)
    \/ JobLoad(j)
    \/ \E r \in FetchResponses : JobFetchRespond(j, 1, r)
    \/ JobTally(j)
    \/ \E w \in SUBSET {1} : JobBulkWrite(j, w)

SpecFlight == InitFlight /\ [][NextFlight]_vars

\* One sync job at a time over the targets A, B, C and a Page document
\* without a baseId.
InitSync ==
  /\ InitValid
  /\ pages = <<PageA, Page("D", "", "tbl"), PageB, PageC>>

NextSync ==
  \/ \E bs \in BatchSizes : StartSync(1, bs)
  \/ JobStep(1)

SpecSync == InitSync /\ [][NextSync]_vars

\* The batch loop with the batch sizes that the route lets through: the body's
\* batchSize reaches the loop unchecked, 0 included.
InitLoop ==
  /\ InitValid
  /\ pages = <<PageA, PageB>>

NextLoop ==
  \/ \E bs \in 0..2 : StartSync(1, bs)
  \/ JobStep(1)

SpecLoop == InitLoop /\ [][NextLoop]_vars

\* The OAuth handshake: /authorize, the clean-up timers and /callback requests
\* with any state, with or without a code and an error.
NextOAuth ==
  \/ Authorize
  \/ \E s \in 1..MaxStates : ExpireVerifier(s)
  \/ \E s \in 0..(MaxStates + 1), hasCode \in BOOLEAN, hasError \in BOOLEAN :
       Callback(s, hasCode, hasError)
  \/ \E c \in 1..MaxCallbacks, status \in TokenStatuses :
       CbTokenRespond(c, status)
  \/ \E c \in 1..MaxCallbacks, ok \in BOOLEAN : CbSave(c, ok)

SpecOAuth == Init /\ [][NextOAuth]_vars

\* The request queue of one AirtableService instance.
NextDispatch ==
  \/ \E ms \in {50, 250} : DispTick(ms)
  \/ DispSubmit
  \/ DispRun
  \/ DispWake
  \/ \E st \in {200, 500} : DispSettle(st)

SpecDispatch == Init /\ [][NextDispatch]_vars

\* Retries on HTTP 429: a job on the limiter and the single-record fetch.
InitRetry ==
  /\ InitValid
  /\ pages = <<>>

NextRetry ==
  \/ LimSchedule
  \/ \E st \in {200, 429, 500} : LimRespond(st)
  \/ \E p \in {"A", "B"} : OneStart(p)
  \/ \E r \in FetchResponses : OneRespond(r)

SpecRetry == InitRetry /\ [][NextRetry]_vars

\* The Diff Parser alone: parseRevisionHistory applied to each input.
InitParse ==
  /\ now = 0
  /\ cookieStore = NoDoc
  /\ minted = 0
  /\ pages = <<>>
  /\ revStore = [p \in PageIds |-> NoDoc]
  /\ jobs = [j \in JobSlots |-> IdleJob]
  /\ auths = [a \in AuthSlots |-> IdleAuth]
  /\ one = IdleOne
  /\ val = IdleVal
  /\ disp = IdleDisp
  /\ lim = IdleLim
  /\ rh = IdleRh
  /\ oauth = IdleOAuth
  /\ parser \in { [IdleParser EXCEPT !.pc = "called", !.activities = a,
                                      !.pageId = "A"] : a \in ParserInputs }

NextParse == Parse

SpecParse == InitParse /\ [][NextParse]_vars

\* Writers of the RevisionHistory collection: a sync job over record A, the
\* single-record route and the save loop of POST /revision-history/fetch.
InitUpsert ==
  /\ InitValid
  /\ pages = <<Page("D", "", "tbl"), PageA>>

UpsertResponses ==
  { Response(200, <<ActAliceBob>>), Response(200, <<ActStatus>>),
    Response(200, <<ActPriority>>), Response(404, <<>>) }

NextUpsert ==
  \/ \E j \in 1..2 : StartSync(j, 1)
  \/ \E j \in 1..2 : JobGetCookies(j)
  \/ \E j \in 1..2 : JobLoad(j)
  \/ \E j \in 1..2, r \in UpsertResponses : JobFetchRespond(j, 1, r)
  \/ \E j \in 1..2 : JobTally(j)
  \/ \E j \in 1..2, w \in SUBSET {1} : JobBulkWrite(j, w)
  \/ OneStart("A")
  \/ \E r \in UpsertResponses : OneRespond(r)
  \/ RhStart
  \/ RhRespond(200)
  \/ \E h \in BOOLEAN : RhSave(h)

SpecUpsert == InitUpsert /\ [][NextUpsert]_vars

\* Failures on the two dispatchers: the request queue of one AirtableService
\* instance and a job on the Bottleneck limiter.
DispatcherStatuses == {200, 401, 404, 429, 500}

NextPass ==
  \/ DispTick(250)
  \/ DispSubmit
  \/ DispRun
  \/ DispWake
  \/ \E st \in DispatcherStatuses : DispSettle(st)
  \/ LimSchedule
  \/ \E st \in DispatcherStatuses : LimRespond(st)

SpecPass == Init /\ [][NextPass]_vars

\* The two fetchers: a sync job of ScrapingService over one target and a
\* batch of RevisionHistoryService.
NextFetchers ==
  \/ StartSync(1, 1)
  \/ JobGetCookies(1)
  \/ JobLoad(1)
  \/ \E r \in FetchResponses : JobFetchRespond(1, 1, r)
  \/ JobTally(1)
  \/ \E w \in SUBSET {1} : JobBulkWrite(1, w)
  \/ RhStart
  \/ \E st \in {200, 401, 403, 500} : RhRespond(st)

SpecFetchers == InitFlight /\ [][NextFetchers]_vars

\* Concurrent /fetch-all-revisions requests with periods without progress.
NextStall ==
  \/ NextFlight
  \/ \E j \in JobSlots, st \in ProbeStatuses : JobProbe(j, st)
  \/ Stall

SpecStall == InitFlight /\ [][NextStall]_vars

(***************************************************************************)
(* Properties.                                                             *)
(***************************************************************************)
Running == {j \in JobSlots : JobState(jobs[j]) = "Running"}

HasDoc == cookieStore # NoDoc

\* the credential states of section 4.1, read off the store and the clock
SessionState ==
  IF ~HasDoc THEN "Absent"
  ELSE IF ~cookieStore.isValid THEN "Invalid"
  ELSE IF now - cookieStore.lastValidated < FreshWindow THEN "Valid"
  ELSE "Stale"

\* C1: single-flight -- at most one sync job is Running at any time.
\* (SpecFlight)
C1_SingleFlight == Cardinality(Running) <= 1

\* the last index of the batch that holds index k, for batch size bs
BatchEnd(k, bs) == (((k - 1) \div bs) + 1) * bs

\* C2: once a record fetch of a job has been answered 401/403 (credentials
\* expired), the job never leaves that batch except to end Failed, and no
\* fetch of a later batch has been issued.  (SpecSync)
C2_AbortOnExpired ==
  \A j \in JobSlots :
    LET job == jobs[j]
    IN  \A k \in 1..Len(job.results) :
          job.results[k].status \in {401, 403} =>
            /\ job.pc \in {"fetch", "done"}
            /\ job.pc = "done" => job.result = "Failed"
            /\ job.pc = "fetch" => k \in BatchOf(job)
            /\ \A m \in 1..Len(job.results) :
                  m > BatchEnd(k, job.batchSize) =>
                     job.results[m].st = "none"

\* C2 witness: a job that ended Failed on a 401/403 of a batch that was not
\* its last one
C2_Witness ==
  \E j \in JobSlots :
    /\ jobs[j].pc = "done" /\ jobs[j].result = "Failed"
    /\ \E k \in 1..Len(jobs[j].results) :
         /\ jobs[j].results[k].status \in {401, 403}
         /\ BatchEnd(k, jobs[j].batchSize) < Len(jobs[j].results)

AliceBobEvent(pageId) ==
  [uuid |-> "act1", issueId |-> pageId, columnType |-> "assignee",
   oldValue |-> "Alice", newValue |-> "Bob", authoredBy |-> "Carol"]

\* a finished job over [A, B, C] whose fetch of A returned the Alice -> Bob
\* change, whose fetch of B was answered 404 and whose fetch of C 401
E2EScenario(job) ==
  /\ job.pc = "done"
  /\ Len(job.targets) = 3
  /\ job.targets[1].pageId = "A" /\ job.results[1].status = 200
  /\ job.results[1].value.revisions = <<AliceBobEvent("A")>>
  /\ job.targets[2].pageId = "B" /\ job.results[2].status = 404
  /\ job.targets[3].pageId = "C" /\ job.results[3].status = 401

\* C3: in the end-to-end scenario, for every batch size 1..3, the job ends
\* Failed with processedCount = 1 and A's Alice -> Bob event is in the store.
\* (SpecSync)
C3_EndToEnd ==
  \A j \in JobSlots :
    E2EScenario(jobs[j]) =>
      /\ jobs[j].result = "Failed"
      /\ jobs[j].count.processed = 1
      /\ revStore["A"] = RevDoc(<<AliceBobEvent("A")>>)

\* a step in which the Revision Fetcher observes a 401/403
FetchSaw401 ==
  \/ /\ one.pc = "inflight" /\ one' # one /\ one'.status \in {401, 403}
  \/ \E j \in JobSlots :
       /\ jobs[j].pc = "fetch" /\ jobs'[j].pc = "fetch"
       /\ \E k \in 1..Len(jobs[j].results) :
            /\ jobs[j].results[k].st = "inflight"
            /\ jobs'[j].results[k] # jobs[j].results[k]
            /\ jobs'[j].results[k].status \in {401, 403}

\* a step in which the Session Validator observes a 401/403 on a probe
ProbeSaw401 ==
  \/ /\ val.pc = "probe" /\ val' # val /\ val'.probeStatus \in {401, 403}
  \/ \E j \in JobSlots :
       /\ jobs[j].pc = "probe" /\ jobs'[j] # jobs[j]
       /\ jobs'[j].probeStatus \in {401, 403}

StoreInvalidAfter == cookieStore' # NoDoc => ~cookieStore'.isValid

\* a step in which the single-record route starts a call
OneCalled == one.pc \in {"idle", "done"} /\ one' # one

\* C4: a 401 on a revision fetch leaves the stored blob Invalid, and a
\* single-record call that finds the blob Invalid fails with the "no valid
\* session" error without issuing a request.  (Spec)
C4_FailFast ==
  [][ /\ FetchSaw401 => StoreInvalidAfter
      /\ (OneCalled /\ SessionState = "Invalid") =>
            /\ one'.pc = "done"
            /\ one'.error = "No valid cookies available"
    ]_vars

\* a step in which the accessor of job j takes its decision
AccessorCalled(j) == jobs[j].pc = "cookies" /\ jobs'[j] # jobs[j]

\* a step in which the accessor of job j gets the last answer of its probe
ProbeEnded(j) == jobs[j].pc = "probe" /\ jobs'[j].pc # "probe"

NoValidSession(job) ==
  /\ job.pc = "done" /\ job.result = "Failed"
  /\ job.error = "No valid cookies available"

\* C5: a Stale blob is re-probed before the accessor returns it; a probe
\* that succeeds makes it Valid and the accessor returns it, a probe that no
\* endpoint accepts makes it Invalid and the accessor raises "no valid
\* session".  (Spec)
C5_StaleReprobe ==
  [][ \A j \in JobSlots :
        /\ (AccessorCalled(j) /\ SessionState = "Stale") =>
              jobs'[j].pc = "probe"
        /\ (ProbeEnded(j) /\ HasDoc) =>
              IF jobs'[j].probeStatus = 200
                THEN /\ cookieStore'.isValid
                     /\ jobs'[j].pc = "load"
                ELSE /\ ~cookieStore'.isValid
                     /\ NoValidSession(jobs'[j])
    ]_vars

\* C6: every 401/403 observed by the Revision Fetcher or by a probe of the
\* Session Validator leaves the stored blob flagged Invalid in that step.
\* (Spec)
C6_InvalidateOn401 ==
  [][ (FetchSaw401 \/ ProbeSaw401) => StoreInvalidAfter ]_vars

\* C7: the accessor returns the stored blob, without a probe, when the blob
\* is Valid (flagged valid, validated less than 5 minutes ago), and raises
\* "no valid session", without a probe, when the blob is Absent or Invalid.
\* (Spec)
C7_AccessorFastPaths ==
  [][ \A j \in JobSlots :
        AccessorCalled(j) =>
          /\ SessionState = "Valid" =>
                /\ jobs'[j].pc = "load"
                /\ jobs'[j].cookies = cookieStore.cookies
                /\ jobs'[j].probes = 0
          /\ SessionState \in {"Absent", "Invalid"} =>
                /\ NoValidSession(jobs'[j])
                /\ jobs'[j].probes = 0
    ]_vars

\* C7 witness: the accessor has returned a blob without any probe
C7_Witness ==
  \E j \in JobSlots :
    /\ jobs[j].pc = "load" /\ jobs[j].probes = 0
    /\ HasDoc /\ jobs[j].cookies = cookieStore.cookies

\* C8: no step of a sync job (the accessor included) starts or advances an
\* acquisition or mints a blob; acquisitions change only in the steps of
\* the authenticate operation.  (Spec)
C8_NoAutoAcquire ==
  [][ jobs' # jobs => (auths' = auths /\ minted' = minted) ]_vars

\* C8 witness: the accessor failed on an Absent blob and no acquisition was
\* ever started
C8_Witness ==
  /\ \E j \in JobSlots : NoValidSession(jobs[j])
  /\ SessionState = "Absent"
  /\ \A a \in AuthSlots : auths[a].pc = "idle"

\* C9: an acquisition that failed for any reason other than a missing
\* one-time code has stored no blob, and has closed its browser when debug
\* mode is off.  (SpecAuth)
C9_FailedStoresNothing ==
  \A a \in AuthSlots :
    (/\ auths[a].pc = "done"
     /\ auths[a].error \notin {"", "BAD_REQUEST", "MFA_CODE_REQUIRED"}) =>
       /\ ~auths[a].stored
       /\ ~auths[a].debugMode => ~auths[a].browser

\* C10: when the login flow shows the one-time-code input and no code was
\* passed, the acquisition ends with MFA_CODE_REQUIRED in that step and the
\* Session Store is left as it is.  (SpecAuth)
C10_MfaCodeRequired ==
  [][ \A a \in AuthSlots :
        (/\ auths[a].pc = "mfa" /\ auths'[a] # auths[a]
         /\ auths'[a].mfaIsRequired /\ ~auths[a].mfaCode) =>
           /\ auths'[a].pc = "done"
           /\ auths'[a].error = "MFA_CODE_REQUIRED"
           /\ ~auths'[a].stored
           /\ cookieStore' = cookieStore
    ]_vars

\* C10 witness: an acquisition has ended with MFA_CODE_REQUIRED
C10_Witness ==
  \E a \in AuthSlots :
    /\ auths[a].pc = "done" /\ auths[a].error = "MFA_CODE_REQUIRED"
    /\ ~auths[a].stored


\* the revision fetches of job j that are on the wire
InFlight(j) ==
  {k \in 1..Len(jobs[j].results) : jobs[j].results[k].st = "inflight"}

\* C11: the number of revision fetches in flight at the same time never
\* exceeds the Dispatcher's concurrency ceiling, whatever the batch size.
\* (SpecSync)
C11_ConcurrencyCeiling ==
  \A j \in JobSlots : Cardinality(InFlight(j)) <= maxConcurrent

\* C12: the number of retries of one request answered 429 never exceeds the
\* configured maximum, for a job on the limiter as for a revision fetch; a
\* 429 that follows the last allowed retry ends the request with a failure,
\* and a 200 ends it with one stored result.  (SpecRetry)
C12_BoundedRetries ==
  [][ /\ lim'.retryCount <= maxRetries
      /\ one'.retryCount <= maxRetries
      /\ (one.pc = "inflight" /\ one' # one /\ one'.status = 429
             /\ one.retryCount >= maxRetries) =>
            (one'.pc = "done" /\ one'.error = "REQUEST_FAILED")
      /\ (one.pc = "inflight" /\ one' # one /\ one'.status = 200) =>
            /\ one'.pc = "done" /\ one'.error = ""
            /\ revStore'[one.pageId] # NoDoc
    ]_vars

\* C13: two requests dispatched one after the other by the same instance
\* start at least minRequestInterval apart.  (SpecDispatch)
C13_MinInterval ==
  disp.prevStart # -1 => disp.lastStart - disp.prevStart >= minRequestInterval

\* C13 witness: a second request was dispatched after its callback had
\* waited for the rest of the interval
C13_Witness ==
  /\ disp.prevStart # -1
  /\ disp.delayed /\ disp.pc = "request"
  /\ disp.lastStart - disp.prevStart = minRequestInterval


\* a step in which POST /fetch-all-revisions is handled for slot k; the
\* route reads nothing but batchSize from the body, so a request with
\* forceRestart = true takes the same step as one without
StartRequest(k) == jobs[k].pc = "idle" /\ jobs'[k].pc # "idle"

\* C14: a start request that arrives while a job is Running and not
\* stalled is rejected: it starts no job and changes no job.  (SpecFlight)
C14_ConflictWhileRunning ==
  [][ \A j \in JobSlots :
        (JobState(jobs[j]) = "Running" /\ ~jobs[j].stalled) =>
           \A k \in JobSlots : ~StartRequest(k)
    ]_vars

\* C15: a start request with forceRestart = true that arrives while a job
\* is Running discards that job: afterwards exactly one job is Running, the
\* new one.  (SpecFlight)
C15_ForceRestart ==
  [][ \A k \in JobSlots :
        (StartRequest(k) /\ Running # {}) => Running' = {k}
    ]_vars

\* C16: the start request that follows a job's stall (no progress for more
\* than 30 minutes) discards the stalled job and starts a new one.
\* (SpecStall)
C16_StalledReclaimed ==
  [][ \A j, k \in JobSlots :
        (/\ JobState(jobs[j]) = "Running" /\ jobs[j].stalled
         /\ StartRequest(k)) =>
           /\ JobState(jobs'[k]) = "Running"
           /\ JobState(jobs'[j]) # "Running"
    ]_vars

\* C17: a job in a terminal state never makes a later start request fail:
\* whenever some job is Completed or Failed, a start request is accepted
\* and its job is Running after it.  (SpecFlight)
C17_TerminalDoesNotBlock ==
  \A j, k \in JobSlots :
    (jobs[j].pc = "done" /\ jobs[k].pc = "idle") =>
       ENABLED (StartSync(k, 1) /\ JobState(jobs'[k]) = "Running")

\* C17 witness: a job is Running that has read the store after another job
\* had failed on credentials that expired
C17_Witness ==
  \E j, k \in JobSlots :
    /\ jobs[j].pc = "done" /\ jobs[j].result = "Failed"
    /\ jobs[k].pc = "cookies"

Settled == {"fulfilled", "rejected"}

\* the records of a job whose fetch failed with an error that is not
\* COOKIES_EXPIRED and not the 404 of a record without history
FailedRecords(job) ==
  {k \in 1..Len(job.results) :
     job.results[k].st = "fulfilled" /\ ~job.results[k].value.success}

\* C18: a job none of whose fetches was answered 401/403 has fetched every
\* target, ends Completed, and its error count is the number of records
\* whose fetch failed.  (SpecSync)
C18_ErrorsContained ==
  \A j \in JobSlots :
    LET job == jobs[j]
    IN  (/\ job.pc = "done" /\ Len(job.targets) > 0
         /\ \A k \in 1..Len(job.results) :
               job.results[k].status \notin {401, 403}) =>
          /\ job.result = "Completed"
          /\ \A k \in 1..Len(job.results) : job.results[k].st = "fulfilled"
          /\ job.count.errors = Cardinality(FailedRecords(job))

\* C18 witness: a Completed job with a transport error, a 500 and a 429
\* that outlasted its retries
C18_Witness ==
  \E j \in JobSlots :
    /\ jobs[j].pc = "done" /\ jobs[j].result = "Completed"
    /\ jobs[j].count.errors = 3
    /\ \E k \in 1..3 : /\ jobs[j].results[k].status = 429
                        /\ jobs[j].results[k].retryCount = maxRetries
    /\ \E k \in 1..3 : jobs[j].results[k].status = 500

\* C19: every fetch of a batch is issued when the batch starts, a settled
\* result is not touched by what happens to its batch-mates, and the job
\* leaves the batch only when every fetch of the batch has settled.
\* (SpecSync)
C19_BatchIsolation ==
  [][ \A j \in JobSlots :
        /\ jobs'[j].pc = "fetch" =>
              \A k \in BatchOf(jobs'[j]) : jobs'[j].results[k].st # "none"
        /\ (jobs[j].pc = "fetch" /\ jobs'[j].pc = "fetch") =>
              \A k \in BatchOf(jobs[j]) :
                 jobs[j].results[k].st \in Settled =>
                    jobs'[j].results[k] = jobs[j].results[k]
        /\ (jobs[j].pc = "fetch" /\ jobs'[j].pc # "fetch") =>
              \A k \in BatchOf(jobs[j]) : jobs[j].results[k].st \in Settled
    ]_vars

\* C19 witness: the first fetch of a batch of three was rejected, the second
\* was answered after that, and the third is still in flight
C19_Witness ==
  \E j \in JobSlots :
    /\ jobs[j].pc = "fetch" /\ jobs[j].batchSize = 3
    /\ jobs[j].results[1].st = "rejected"
    /\ jobs[j].results[2].st = "fulfilled"
    /\ jobs[j].results[3].st = "inflight"

\* C20: a 401 or 403 from the internal endpoint flags the stored blob
\* invalid and ends the fetch with COOKIES_EXPIRED, which no per-record
\* handler swallows: the record of a sync job is rejected, and the batch of
\* RevisionHistoryService ends with COOKIES_EXPIRED.  (SpecFetchers)
C20_ExpiredPropagates ==
  [][ /\ \A j \in JobSlots : \A k \in 1..Len(jobs[j].results) :
            (/\ jobs[j].pc = "fetch" /\ jobs'[j].pc = "fetch"
             /\ jobs[j].results[k].st = "inflight"
             /\ jobs'[j].results[k] # jobs[j].results[k]
             /\ jobs'[j].results[k].status \in {401, 403}) =>
               /\ jobs'[j].results[k].st = "rejected"
               /\ StoreInvalidAfter
      /\ (rh.pc = "inflight" /\ rh' # rh /\ rh'.status \in {401, 403}) =>
            /\ rh'.pc = "done" /\ rh'.error = "COOKIES_EXPIRED"
            /\ StoreInvalidAfter
    ]_vars

(***************************************************************************)
(* Claims C21..C30.                                                        *)
(***************************************************************************)
\* the route's fetch of one.pageId ends on the answer 404
OneEndsOn404 == one.pc = "inflight" /\ one'.pc = "done" /\ one'.status = 404

\* the fetch of record k of job j is answered 404
JobAnswered404(j, k) ==
  /\ jobs[j].pc = "fetch"
  /\ jobs'[j].results[k] # jobs[j].results[k]
  /\ jobs'[j].results[k].status = 404

\* C21: when the internal endpoint answers a fetch with 404, the Revision
\* Fetcher returns an empty list of events and raises no error (the route
\* answers with no revisions, the record of a job is fulfilled as a success
\* without history), and the Session Store is left as it was.
C21_NotFoundIsEmpty ==
  [][ /\ OneEndsOn404 =>
           /\ one'.error = ""
           /\ one'.revisions = <<>>
           /\ cookieStore' = cookieStore
      /\ \A j \in JobSlots : \A k \in 1..Len(jobs[j].results) :
           JobAnswered404(j, k) =>
             /\ jobs'[j].results[k].st = "fulfilled"
             /\ jobs'[j].results[k].value.success
             /\ ~jobs'[j].results[k].value.hasHistory
             /\ jobs'[j].results[k].value.revisions = <<>>
             /\ cookieStore' = cookieStore ]_vars

\* the route has answered a 404 without error while a job holds a record
\* that was answered 404
C21_Witness ==
  /\ one.pc = "done" /\ one.status = 404 /\ one.error = ""
  /\ \E j \in JobSlots : \E k \in 1..Len(jobs[j].results) :
        jobs[j].results[k].status = 404 /\ jobs[j].results[k].st = "fulfilled"

\* the step is the bulkWrite of job j
BulkWriteStep(j) == jobs[j].pc = "write" /\ jobs'[j].pc # "write"

\* the route's fetch ends with a result, which the route upserts
OneUpserts == one.pc = "inflight" /\ one'.pc = "done" /\ one'.error = ""

ValidTarget(p) == p.baseId # "" /\ p.tableId # "" /\ p.pageId # ""

FirstRejected(job) ==
  CHOOSE k \in BatchOf(job) :
    /\ job.results[k].st = "rejected"
    /\ \A m \in BatchOf(job) : job.results[m].st = "rejected" => k <= m

Tallied(job) ==
  IF job.pc = "fetch" THEN 1..job.i
  ELSE IF job.pc \in {"write", "delay"}
    THEN 1..Min(job.i + job.batchSize, Len(job.targets))
  ELSE IF JobState(job) = "Completed" THEN 1..Len(job.targets)
  ELSE IF JobState(job) = "Failed"
          /\ \E k \in BatchOf(job) : job.results[k].st = "rejected"
    THEN 1..FirstRejected(job)
  ELSE {}

SucceededWithHistory(job) ==
  {k \in Tallied(job) : /\ job.results[k].st = "fulfilled"
                        /\ job.results[k].value.success
                        /\ job.results[k].value.hasHistory}

SucceededWithoutHistory(job) ==
  {k \in Tallied(job) : /\ job.results[k].st = "fulfilled"
                        /\ job.results[k].value.success
                        /\ ~job.results[k].value.hasHistory}

\* C24: every record that a job has tallied is counted in exactly one of
\* withHistory, withoutHistory and errors: the three counters are the sizes
\* of three disjoint sets that cover the tallied records, and a record
\* answered 404 is in the set counted by withoutHistory.
C24_TallyPartition ==
  \A j \in JobSlots :
    LET job  == jobs[j]
        with == SucceededWithHistory(job)
        wout == SucceededWithoutHistory(job)
    IN  /\ job.count.withHistory = Cardinality(with)
        /\ job.count.withoutHistory = Cardinality(wout)
        /\ job.count.errors = Cardinality(Tallied(job) \ (with \cup wout))
        /\ \A k \in Tallied(job) : job.results[k].status = 404 => k \in wout

\* a completed job has tallied three records: one with history, one
\* answered 404 and one that failed
C24_Witness ==
  \E j \in JobSlots :
    /\ JobState(jobs[j]) = "Completed"
    /\ jobs[j].count.withHistory = 1
    /\ jobs[j].count.withoutHistory = 1
    /\ jobs[j].count.errors = 1
    /\ \E k \in 1..Len(jobs[j].targets) : jobs[j].results[k].status = 404

\* the Change Events of the call of the Diff Parser that has returned
ParsedEvents ==
  IF parser.pc = "done"
    THEN {parser.revisions[i] : i \in 1..Len(parser.revisions)}
    ELSE {}

\* C25: every Change Event that the Diff Parser returns has a columnType
\* that is "assignee" or "status", and its oldValue and newValue are not
\* both null.
C25_EventWellFormed ==
  \A e \in ParsedEvents :
    /\ e.columnType \in {"assignee", "status"}
    /\ e.oldValue # Null \/ e.newValue # Null

\* the parser has returned an assignee event with a new value only and a
\* status event with both values
C25_Witness ==
  /\ \E e \in ParsedEvents :
       e.columnType = "assignee" /\ e.oldValue = Null /\ e.newValue = "Bob"
  /\ \E e \in ParsedEvents :
       e.columnType = "status" /\ e.oldValue = "Todo" /\ e.newValue = "Done"

\* the call was given one activity with one container
OneContainer ==
  /\ parser.pc = "done"
  /\ Len(parser.activities) = 1
  /\ parser.activities[1].html = "fragment"
  /\ Len(parser.activities[1].containers) = 1

TheContainer == parser.activities[1].containers[1]

\* some token of the container has a title or a text
HasValue(c) ==
  \E i \in 1..Len(c.tokens) :
     c.tokens[i].titleAttr # "" \/ c.tokens[i].text # ""

\* the kind that claim C26 gives a container
KindByAssign(c) ==
  LET label == toLowerCase(c.label)
  IN  IF c.columnTypeAttr # "select" THEN ""
      ELSE IF includes(label, sAssign) \/ includes(label, sDeveloper)
        THEN "assignee"
      ELSE IF includes(label, sStatus) THEN "status"
      ELSE ""

\* the kind by the substrings "assigned", "assignee" and "developer"
KindByAssignee(c) ==
  LET label == toLowerCase(c.label)
  IN  IF c.columnTypeAttr # "select" THEN ""
      ELSE IF \/ includes(label, sAssigned)
              \/ includes(label, sAssignee)
              \/ includes(label, sDeveloper)
        THEN "assignee"
      ELSE IF includes(label, sStatus) THEN "status"
      ELSE ""

\* the parser has made of the container one event of this kind, or no event
\* when the kind is ""
ClassifiedAs(kind) ==
  IF kind # "" /\ HasValue(TheContainer)
    THEN /\ Len(parser.revisions) = 1
         /\ parser.revisions[1].columnType = kind
    ELSE parser.revisions = <<>>

\* C26 as claimed: a container is classified as Assignee when its label, in
\* lower case, contains "assign" or "developer" and its column type is
\* "select", as Status when the label contains "status" and the column type
\* is "select", and gives no event otherwise.
C26_ClassifyByAssign == OneContainer => ClassifiedAs(KindByAssign(TheContainer))

\* C26 amended: a container is classified as Assignee when its label, in
\* lower case, contains "assigned", "assignee" or "developer" and its column
\* type is "select", as Status when the label contains "status" but none of
\* these and the column type is "select", and gives no event otherwise.
C26_ClassifyByAssignee ==
  OneContainer => ClassifiedAs(KindByAssignee(TheContainer))

\* the parser has classified a container "ASSIGNED TO" of type select as
\* assignee
C26_Witness ==
  /\ OneContainer
  /\ TheContainer.label = LabelAssignedTo
  /\ TheContainer.columnTypeAttr = "select"
  /\ Len(parser.revisions) = 1
  /\ parser.revisions[1].columnType = "assignee"

\* the title of a token, as the parser reads it
TitleOf(tok) == IF tok.titleAttr # "" THEN tok.titleAttr ELSE tok.text

\* the bucket of a token by the first rule that applies
BucketOf(tok) ==
  IF includes(tok.href, sPlus) THEN "new"
  ELSE IF includes(tok.href, sMinus) THEN "old"
  ELSE IF includes(tok.style, sLineThrough) THEN "old"
  ELSE "new"

\* the title of the last token of the bucket, Null when the bucket is empty
LastOf(tokens, bucket) ==
  LET idx == {i \in 1..Len(tokens) :
                TitleOf(tokens[i]) # "" /\ BucketOf(tokens[i]) = bucket}
  IN  IF idx = {} THEN Null
      ELSE TitleOf(tokens[CHOOSE i \in idx : \A m \in idx : m <= i])

EventsOf(act) == SelectSeq(parser.revisions, LAMBDA e : e.uuid = act.id)

\* C28: an activity whose fragment cannot be parsed contributes no event, and
\* the parser still returns the events of every other activity of the call.
C28_BadFragmentIsolated ==
  parser.pc = "done" =>
    \A i \in 1..Len(parser.activities) :
      LET act == parser.activities[i]
      IN  EventsOf(act) =
            IF act.html = "fragment"
              THEN parseContainers(act, act.containers, parser.pageId)
              ELSE <<>>

\* the parser has returned the event of an activity that follows one whose
\* fragment could not be parsed
C28_Witness ==
  /\ parser.pc = "done"
  /\ Len(parser.activities) = 2
  /\ parser.activities[1].html = "malformed"
  /\ Len(parser.revisions) = 1
  /\ parser.revisions[1].uuid = parser.activities[2].id

\* the single-record fetch is answered 429 and waits for its next attempt
OneRetries ==
  /\ one.pc = "inflight" /\ one'.pc = "inflight"
  /\ one'.retryCount = one.retryCount + 1

\* the job on the limiter is answered 429 and waits for its next run
LimRetries == lim.pc = "running" /\ lim'.retryCount = lim.retryCount + 1

\* C29: the delay before the n-th retry of a request answered 429 is
\* base * 2^n, capped at the maximum delay: 1000 * 2^n ms in
\* fetchRevisionHistory, 2000 * 2^n ms up to 8000 ms on the limiter.
C29_ExponentialBackoff ==
  [][ /\ OneRetries => one'.wait = 1000 * (2 ^ one.retryCount)
      /\ LimRetries => lim'.wait = Min(2000 * (2 ^ lim.retryCount), 8000)
    ]_vars

\* C30: a request that fails with a status other than 429 is not run again
\* and its failure is what the caller gets: the job on the limiter ends with
\* the error of that answer without another retry, and the request of the
\* queue settles the caller's promise with its answer after one attempt.
C30_FailurePassesThrough ==
  [][ /\ (lim.pc = "running" /\ lim' # lim /\ lim'.status \notin {200, 429})
           => /\ lim'.pc = "done"
              /\ lim'.retryCount = lim.retryCount
              /\ lim'.thrown = lim'.status
      /\ (disp.pc = "request" /\ disp'.pc # "request")
           => /\ disp'.result = disp'.answered
              /\ disp'.attempts = disp.attempts
              /\ disp'.queued = disp.queued
      /\ disp'.attempts + disp'.queued <= disp'.submitted ]_vars

\* both dispatchers have passed a failure on: the limiter's job has ended on
\* a 500 after one retry for a 429, and a request of the queue has settled
\* with a 404 when every submitted request has been attempted once
C30_Witness ==
  /\ lim.pc = "done" /\ lim.thrown = 500 /\ lim.retryCount = 1
  /\ disp.pc = "idle" /\ disp.result = 404
  /\ disp.submitted = 2 /\ disp.attempts = 2 /\ disp.queued = 0

(***************************************************************************)
(* Claims C31..C40.                                                        *)
(***************************************************************************)
\* C31: the requests of one AirtableService instance start in the order in
\* which rateLimitedRequest was called: the ids in startOrder, given in
\* submission order, increase.
C31_StartInSubmissionOrder ==
  \A a \in 1..Len(disp.startOrder) : \A b \in 1..Len(disp.startOrder) :
     a < b => disp.startOrder[a] < disp.startOrder[b]

\* the first two of three requests have started, the second is in progress
\* and the third waits on the chain
C31_Witness ==
  /\ disp.startOrder = <<1, 2>>
  /\ disp.queue = <<3>>
  /\ disp.pc = "request" /\ disp.current = 2

\* the request in progress settles
SettleStep == disp.pc = "request" /\ disp'.pc # "request"

\* C39: a request whose function rejects does not stall the queue.  The
\* rejection goes to the caller of that request alone (no other request's
\* outcome changes in the step), a request that has settled keeps its own
\* outcome, and whenever the queue is idle with callbacks waiting, the next
\* one can start, whatever the requests before it came to.
C39_RejectionDoesNotStall ==
  /\ [](disp.pc = "idle" /\ disp.queue # <<>> => ENABLED DispRun)
  /\ [][ /\ SettleStep =>
              /\ disp'.outcomes[disp.current]
                   = (IF disp'.answered = 200 THEN "resolved" ELSE "rejected")
              /\ \A i \in 1..Len(disp.outcomes) :
                   i # disp.current => disp'.outcomes[i] = disp.outcomes[i]
         /\ \A i \in 1..Len(disp.outcomes) :
              disp.outcomes[i] # "pending"
                => disp'.outcomes[i] = disp.outcomes[i] ]_vars

\* the second of three requests was rejected; the first and the third were
\* started and resolved
C39_Witness ==
  /\ disp.outcomes = <<"resolved", "rejected", "resolved">>
  /\ disp.startOrder = <<1, 2, 3>>

\* the acquisitions in progress
Acquiring == {a \in AuthSlots : auths[a].pc \notin {"idle", "done"}}

\* C32: at most one acquisition is in progress at any time, and an
\* acquisition that has ended with debug mode off has closed its browser.
C32_OneAcquisition ==
  /\ Cardinality(Acquiring) <= 1
  /\ \A a \in AuthSlots :
       auths[a].pc = "done" /\ ~auths[a].debugMode => ~auths[a].browser

\* the batches of a job that have run to the end of their tally and had
\* their write attempted
BatchesDone(job) ==
  IF job.pc \in {"fetch", "write"} THEN job.i \div job.batchSize
  ELSE IF job.pc = "delay" THEN (job.i \div job.batchSize) + 1
  ELSE IF JobState(job) = "Completed" /\ Len(job.targets) > 0
    THEN ((Len(job.targets) - 1) \div job.batchSize) + 1
  ELSE IF JobState(job) = "Failed" /\ Len(job.targets) > 0
    THEN job.i \div job.batchSize
  ELSE 0

\* none of the four counters of report p is above its value in report q
NotAbove(p, q) ==
  /\ p.processed <= q.processed
  /\ p.withHistory <= q.withHistory
  /\ p.withoutHistory <= q.withoutHistory
  /\ p.errors <= q.errors

\* C33: the progress observer is called once for each batch that has run to
\* the end of its tally, in batch order and after the batch's write was
\* attempted (the n-th report is appended by the step that ends the n-th
\* batch: the bulkWrite, or the tally when there is nothing to write), and
\* the processed, withHistory, withoutHistory and errors of the reports
\* never decrease.
C33_ProgressPerBatch ==
  /\ [](\A j \in JobSlots :
          /\ Len(jobs[j].progress) = BatchesDone(jobs[j])
          /\ \A n \in 1..Len(jobs[j].progress) : \A m \in 1..n :
               NotAbove(jobs[j].progress[m], jobs[j].progress[n]))
  /\ [][ \A j \in JobSlots :
           (jobs[j].pc # "idle" /\ jobs'[j].progress # jobs[j].progress) =>
             /\ Len(jobs'[j].progress) = Len(jobs[j].progress) + 1
             /\ SubSeq(jobs'[j].progress, 1, Len(jobs[j].progress))
                  = jobs[j].progress
             /\ \/ jobs[j].pc = "write"
                \/ jobs[j].pc = "fetch" /\ jobs'[j].pc \in {"delay", "done"}
                     /\ jobs'[j].bulkOps = <<>> ]_vars

\* a job of batch size 1 over three targets has completed with three reports
\* of processed 1, 2 and 3
C33_Witness ==
  \E j \in JobSlots :
    /\ JobState(jobs[j]) = "Completed" /\ jobs[j].batchSize = 1
    /\ Len(jobs[j].progress) = 3
    /\ \A n \in 1..3 : jobs[j].progress[n].processed = n
    /\ jobs[j].progress[3].withHistory = 2

\* C34: at every progress report processed is at most the number of
\* targets, and when a job completes its processed count and that of its
\* last report equal the number of targets, also when records failed.
C34_ProcessedReachesTotal ==
  \A j \in JobSlots :
    LET job == jobs[j]
    IN  /\ \A n \in 1..Len(job.progress) :
             job.progress[n].processed <= job.progress[n].total
        /\ JobState(job) = "Completed" /\ Len(job.targets) > 0
             => /\ job.count.processed = Len(job.targets)
                /\ job.progress[Len(job.progress)].processed
                     = Len(job.targets)

\* C35: when a job has ended, the events of every record that it counted
\* in withHistory are in the store.
C35_TalliedIsStored ==
  \A j \in JobSlots :
    jobs[j].pc = "done" =>
      \A k \in SucceededWithHistory(jobs[j]) :
        revStore[jobs[j].targets[k].pageId]
          = RevDoc(jobs[j].results[k].value.revisions)

\* the events stored for a record (none when it has no document)
StoredEvents(store, pageId) ==
  IF store[pageId] = NoDoc THEN <<>> ELSE store[pageId].revisions

\* C36: when a sync job completes, the store holds for every target whose
\* fetch succeeded in the job exactly the events that the fetch returned,
\* none for a record whose fetch returned none.
C36_StoreReflectsFetch ==
  [][ \A j \in JobSlots :
        (JobState(jobs[j]) = "Running" /\ JobState(jobs'[j]) = "Completed") =>
          \A k \in 1..Len(jobs'[j].targets) :
            (/\ jobs'[j].results[k].st = "fulfilled"
             /\ jobs'[j].results[k].value.success) =>
               StoredEvents(revStore', jobs'[j].targets[k].pageId)
                 = jobs'[j].results[k].value.revisions ]_vars

\* a job has completed with record A fetched without history while the
\* store still holds events of A
StaleEventsRemain ==
  \E j \in JobSlots :
    /\ JobState(jobs[j]) = "Completed"
    /\ Len(jobs[j].targets) = 1
    /\ jobs[j].results[1].value.success
    /\ ~jobs[j].results[1].value.hasHistory
    /\ jobs[j].count.withoutHistory = 1
    /\ "A" \in jobs[j].existing
    /\ StoredEvents(revStore, "A") # <<>>

\* C37: a stored blob that is flagged invalid stays invalid for as long as
\* the store holds that blob: only an acquisition that stores another blob
\* gives the store a valid document again.
C37_InvalidIsFinal ==
  [][ (/\ cookieStore # NoDoc /\ ~cookieStore.isValid
       /\ cookieStore' # NoDoc /\ cookieStore'.cookies = cookieStore.cookies)
        => ~cookieStore'.isValid ]_vars

\* the pacing delay of job j ends and its next batch is issued
NextBatchStep(j) == jobs[j].pc = "delay" /\ jobs'[j].pc = "fetch"

\* C38: a sync job always ends: every new batch starts at a higher index
\* than the one before, no fetch is retried more than maxRetries times, and
\* the job is never left without a next step before it has resolved or
\* thrown.
C38_JobAdvances ==
  [][ \A j \in JobSlots :
        /\ NextBatchStep(j) => jobs'[j].i > jobs[j].i
        /\ \A k \in 1..Len(jobs'[j].results) :
             jobs'[j].results[k].retryCount <= maxRetries ]_vars

\* a /callback request arrives; NewCallback is its record after the step
CallbackArrives == Len(oauth'.callbacks) = Len(oauth.callbacks) + 1
NewCallback == oauth'.callbacks[Len(oauth'.callbacks)]

\* an earlier callback has taken the verifier stored for state s
Redeemed(s) ==
  \E k \in 1..Len(oauth.callbacks) : oauth.callbacks[k].codeVerifier = s

\* /authorize has not issued state s
NeverIssued(s) == s > oauth.issued

\* C40 as stated: a callback that carries a state already redeemed, or a
\* state never issued, is rejected with invalid_state and sends no token
\* exchange, whatever became of the first exchange.
C40_RedeemedOnce ==
  [][ (/\ CallbackArrives
       /\ NewCallback.state >= 1
       /\ Redeemed(NewCallback.state) \/ NeverIssued(NewCallback.state))
      => /\ NewCallback.outcome = "invalid_state"
         /\ NewCallback.codeVerifier = 0 ]_vars

\* C40 amended: such a callback sends no token exchange, and is rejected
\* with invalid_state when it carries a code and no error parameter; the
\* error parameter and the missing code are answered before the state is
\* looked up.
C40_RedeemedOnceChecked ==
  [][ (/\ CallbackArrives
       /\ NewCallback.state >= 1
       /\ Redeemed(NewCallback.state) \/ NeverIssued(NewCallback.state))
      => /\ NewCallback.codeVerifier = 0
         /\ NewCallback.outcome =
              IF NewCallback.error THEN "oauth_error"
              ELSE IF ~NewCallback.code THEN "invalid_callback"
              ELSE "invalid_state" ]_vars

\* state 1 was redeemed by a callback whose exchange failed, a second
\* callback with state 1 and one with a state never issued were rejected
C40_Witness ==
  /\ Len(oauth.callbacks) = 3
  /\ oauth.callbacks[1].codeVerifier = 1
  /\ oauth.callbacks[1].outcome = "token_exchange_failed"
  /\ oauth.callbacks[2].state = 1
  /\ oauth.callbacks[2].outcome = "invalid_state"
  /\ oauth.callbacks[3].state = MaxStates + 1
  /\ oauth.callbacks[3].outcome = "invalid_state"

=============================================================================
